---- MODULE Spec2Model ----
(***************************************************************************)
(* ai-digest: the aggregation pipeline of internal/processor (collect,     *)
(* concurrent per-file processing, single/split output writers, stats)     *)
(* and the helpers of internal/utils it calls.                             *)
(*                                                                         *)
(* Byte strings are sequences of one-character strings.  Bytes outside     *)
(* ASCII are written as two-hex-digit tokens: "EF" "BB" "BF" (the UTF-8    *)
(* byte-order mark), "FF" and "89" (bytes that are not valid UTF-8 on      *)
(* their own), "C2" "A0" (U+00A0), "EF" "BF" "BD" (U+FFFD), "00" (NUL),    *)
(* "1A" (SUB), "0B" (vertical tab) and "60" (the backtick of a code        *)
(* fence).                                                                 *)
(*                                                                         *)
(* Specifications: Spec (a whole run), SpecWriter (a caller of the writer  *)
(* interface), SpecPool (the worker pool with more files than slots),      *)
(* SpecSplit (a split run over three blocks), SpecUtils (ShouldIgnore and  *)
(* RemoveWhitespace on their own), SpecCmd (the digest command from its    *)
(* flags on), SpecFair (a whole run under a fair scheduler).               *)
(***************************************************************************)
EXTENDS Integers, Sequences, FiniteSets, TLC

(***************************************************************************)
(* Bounds of the model.                                                    *)
(***************************************************************************)
\* entries of the input tree besides its root
MaxFiles == 2
\* bytes per "MB" of the size flags: the scaled stand-in for 1024*1024
BytesPerMB == 40
\* cfg.MaxFileSizeMB ranges over 1..MaxCeilingMB
MaxCeilingMB == 2

(***************************************************************************)
(* Program constants.                                                      *)
(***************************************************************************)
maxConcurrency == 10
\* IsTextFile samples at most this many bytes
sniffLen == 512

utf8BOM == <<"EF", "BB", "BF">>

BinaryFileTypes ==
  << <<<<".", "j", "p", "g">>, <<"I", "m", "a", "g", "e">>>>,
     <<<<".", "j", "p", "e", "g">>, <<"I", "m", "a", "g", "e">>>>,
     <<<<".", "p", "n", "g">>, <<"I", "m", "a", "g", "e">>>>,
     <<<<".", "g", "i", "f">>, <<"I", "m", "a", "g", "e">>>>,
     <<<<".", "b", "m", "p">>, <<"I", "m", "a", "g", "e">>>>,
     <<<<".", "w", "e", "b", "p">>, <<"I", "m", "a", "g", "e">>>>,
     <<<<".", "s", "v", "g">>, <<"S", "V", "G", " ", "I", "m", "a", "g", "e">>>>,
     <<<<".", "w", "a", "s", "m">>, <<"W", "e", "b", "A", "s", "s", "e", "m", "b", "l", "y">>>>,
     <<<<".", "p", "d", "f">>, <<"P", "D", "F">>>>,
     <<<<".", "d", "o", "c">>, <<"W", "o", "r", "d", " ", "D", "o", "c", "u", "m", "e", "n", "t">>>>,
     <<<<".", "d", "o", "c", "x">>, <<"W", "o", "r", "d", " ", "D", "o", "c", "u", "m", "e", "n", "t">>>>,
     <<<<".", "x", "l", "s">>, <<"E", "x", "c", "e", "l", " ", "S", "p", "r", "e", "a", "d", "s", "h", "e", "e", "t">>>>,
     <<<<".", "x", "l", "s", "x">>, <<"E", "x", "c", "e", "l", " ", "S", "p", "r", "e", "a", "d", "s", "h", "e", "e", "t">>>>,
     <<<<".", "p", "p", "t">>, <<"P", "o", "w", "e", "r", "P", "o", "i", "n", "t", " ", "P", "r", "e", "s", "e", "n", "t", "a", "t", "i", "o", "n">>>>,
     <<<<".", "p", "p", "t", "x">>, <<"P", "o", "w", "e", "r", "P", "o", "i", "n", "t", " ", "P", "r", "e", "s", "e", "n", "t", "a", "t", "i", "o", "n">>>>,
     <<<<".", "z", "i", "p">>, <<"C", "o", "m", "p", "r", "e", "s", "s", "e", "d", " ", "A", "r", "c", "h", "i", "v", "e">>>>,
     <<<<".", "r", "a", "r">>, <<"C", "o", "m", "p", "r", "e", "s", "s", "e", "d", " ", "A", "r", "c", "h", "i", "v", "e">>>>,
     <<<<".", "7", "z">>, <<"C", "o", "m", "p", "r", "e", "s", "s", "e", "d", " ", "A", "r", "c", "h", "i", "v", "e">>>>,
     <<<<".", "e", "x", "e">>, <<"E", "x", "e", "c", "u", "t", "a", "b", "l", "e">>>>,
     <<<<".", "d", "l", "l">>, <<"D", "y", "n", "a", "m", "i", "c", "-", "l", "i", "n", "k", " ", "L", "i", "b", "r", "a", "r", "y">>>>,
     <<<<".", "s", "o">>, <<"S", "h", "a", "r", "e", "d", " ", "O", "b", "j", "e", "c", "t">>>>,
     <<<<".", "d", "y", "l", "i", "b">>, <<"D", "y", "n", "a", "m", "i", "c", " ", "L", "i", "b", "r", "a", "r", "y">>>> >>

WhitespaceDependentExtensions ==
  { <<".", "p", "y">>,
    <<".", "y", "a", "m", "l">>,
    <<".", "y", "m", "l">>,
    <<".", "j", "a", "d", "e">>,
    <<".", "h", "a", "m", "l">>,
    <<".", "s", "l", "i", "m">>,
    <<".", "c", "o", "f", "f", "e", "e">>,
    <<".", "p", "u", "g">>,
    <<".", "s", "t", "y", "l">>,
    <<".", "g", "d">> }

DefaultIgnores ==
  << <<"n", "o", "d", "e", "_", "m", "o", "d", "u", "l", "e", "s">>,
     <<"p", "a", "c", "k", "a", "g", "e", "-", "l", "o", "c", "k", ".", "j", "s", "o", "n">>,
     <<"n", "p", "m", "-", "d", "e", "b", "u", "g", ".", "l", "o", "g">>,
     <<"y", "a", "r", "n", ".", "l", "o", "c", "k">>,
     <<"y", "a", "r", "n", "-", "e", "r", "r", "o", "r", ".", "l", "o", "g">>,
     <<"p", "n", "p", "m", "-", "l", "o", "c", "k", ".", "y", "a", "m", "l">>,
     <<"b", "u", "n", ".", "l", "o", "c", "k", "b">>,
     <<"d", "e", "n", "o", ".", "l", "o", "c", "k">>,
     <<"v", "e", "n", "d", "o", "r">>,
     <<"c", "o", "m", "p", "o", "s", "e", "r", ".", "l", "o", "c", "k">>,
     <<"_", "_", "p", "y", "c", "a", "c", "h", "e", "_", "_">>,
     <<"*", ".", "p", "y", "c">>,
     <<"*", ".", "p", "y", "o">>,
     <<"*", ".", "p", "y", "d">>,
     <<".", "P", "y", "t", "h", "o", "n">>,
     <<"p", "i", "p", "-", "l", "o", "g", ".", "t", "x", "t">>,
     <<"p", "i", "p", "-", "d", "e", "l", "e", "t", "e", "-", "t", "h", "i", "s", "-", "d", "i", "r", "e", "c", "t", "o", "r", "y", ".", "t", "x", "t">>,
     <<".", "v", "e", "n", "v">>,
     <<"v", "e", "n", "v">>,
     <<"E", "N", "V">>,
     <<"e", "n", "v">>,
     <<".", "g", "o", "d", "o", "t">>,
     <<"*", ".", "i", "m", "p", "o", "r", "t">>,
     <<"G", "e", "m", "f", "i", "l", "e", ".", "l", "o", "c", "k">>,
     <<".", "b", "u", "n", "d", "l", "e">>,
     <<"t", "a", "r", "g", "e", "t">>,
     <<"*", ".", "c", "l", "a", "s", "s">>,
     <<".", "g", "r", "a", "d", "l", "e">>,
     <<"b", "u", "i", "l", "d">>,
     <<"p", "o", "m", ".", "x", "m", "l", ".", "t", "a", "g">>,
     <<"p", "o", "m", ".", "x", "m", "l", ".", "r", "e", "l", "e", "a", "s", "e", "B", "a", "c", "k", "u", "p">>,
     <<"p", "o", "m", ".", "x", "m", "l", ".", "v", "e", "r", "s", "i", "o", "n", "s", "B", "a", "c", "k", "u", "p">>,
     <<"p", "o", "m", ".", "x", "m", "l", ".", "n", "e", "x", "t">>,
     <<"b", "i", "n">>,
     <<"o", "b", "j">>,
     <<"*", ".", "s", "u", "o">>,
     <<"*", ".", "u", "s", "e", "r">>,
     <<"g", "o", ".", "s", "u", "m">>,
     <<"C", "a", "r", "g", "o", ".", "l", "o", "c", "k">>,
     <<"t", "a", "r", "g", "e", "t">>,
     <<".", "g", "i", "t">>,
     <<".", "s", "v", "n">>,
     <<".", "h", "g">>,
     <<".", "D", "S", "_", "S", "t", "o", "r", "e">>,
     <<"T", "h", "u", "m", "b", "s", ".", "d", "b">>,
     <<".", "e", "n", "v">>,
     <<".", "e", "n", "v", ".", "l", "o", "c", "a", "l">>,
     <<".", "e", "n", "v", ".", "d", "e", "v", "e", "l", "o", "p", "m", "e", "n", "t", ".", "l", "o", "c", "a", "l">>,
     <<".", "e", "n", "v", ".", "t", "e", "s", "t", ".", "l", "o", "c", "a", "l">>,
     <<".", "e", "n", "v", ".", "p", "r", "o", "d", "u", "c", "t", "i", "o", "n", ".", "l", "o", "c", "a", "l">>,
     <<"*", ".", "e", "n", "v">>,
     <<"*", ".", "e", "n", "v", ".", "*">>,
     <<".", "s", "v", "e", "l", "t", "e", "-", "k", "i", "t">>,
     <<".", "n", "e", "x", "t">>,
     <<".", "n", "u", "x", "t">>,
     <<".", "v", "u", "e", "p", "r", "e", "s", "s">>,
     <<".", "c", "a", "c", "h", "e">>,
     <<"d", "i", "s", "t">>,
     <<"t", "m", "p">>,
     <<"c", "o", "d", "e", "b", "a", "s", "e", ".", "m", "d">>,
     <<".", "t", "u", "r", "b", "o">> >>

(***************************************************************************)
(* strings, path/filepath, unicode/utf8                                    *)
(***************************************************************************)
\* sequencing: the value x of a step is computed once and handed to the step F
Then(x, F(_)) == CHOOSE r \in {F(v) : v \in {x}} : TRUE

Max(S) == CHOOSE x \in S : \A y \in S : y <= x

HasPrefix(s, p) == Len(p) <= Len(s) /\ SubSeq(s, 1, Len(p)) = p

HasSuffix(s, p) == Len(p) <= Len(s) /\ SubSeq(s, Len(s) - Len(p) + 1, Len(s)) = p

TrimPrefix(s, p) == IF HasPrefix(s, p) THEN SubSeq(s, Len(p) + 1, Len(s)) ELSE s

TrimSuffix(s, p) == IF HasSuffix(s, p) THEN SubSeq(s, 1, Len(s) - Len(p)) ELSE s

Contains(s, sub) ==
  \E i \in 1..(Len(s) - Len(sub) + 1) : SubSeq(s, i, i + Len(sub) - 1) = sub

upperLetters == <<"A", "B", "C", "D", "E", "F", "G", "H", "I", "J", "K", "L", "M", "N", "O", "P", "Q", "R", "S", "T", "U", "V", "W", "X", "Y", "Z">>

lowerLetters == <<"a", "b", "c", "d", "e", "f", "g", "h", "i", "j", "k", "l", "m", "n", "o", "p", "q", "r", "s", "t", "u", "v", "w", "x", "y", "z">>

ToLowerByte(c) ==
  IF \E i \in 1..Len(upperLetters) : upperLetters[i] = c
  THEN lowerLetters[CHOOSE i \in 1..Len(upperLetters) : upperLetters[i] = c]
  ELSE c

ToLower(s) == [i \in 1..Len(s) |-> ToLowerByte(s[i])]

\* filepath.Ext: the suffix beginning at the final dot of the final element
Ext(path) ==
  LET dots == {i \in 1..Len(path) :
                 path[i] = "." /\ \A j \in i..Len(path) : path[j] # "/"}
  IN  IF dots = {} THEN <<>> ELSE SubSeq(path, Max(dots), Len(path))

\* filepath.Join of two clean, non-empty paths
Join(dir, rel) == dir \o <<"/">> \o rel

\* filepath.Rel(base, target) of clean paths: [path, err]
Rel(base, target) ==
  IF target = base THEN [path |-> <<".">>, err |-> FALSE]
  ELSE IF HasPrefix(target, base \o <<"/">>)
       THEN [path |-> SubSeq(target, Len(base) + 2, Len(target)), err |-> FALSE]
       ELSE [path |-> <<>>, err |-> TRUE]

\* utf8.DecodeRune over the model's bytes: the width of the encoding at the
\* head of s, 0 when there is none.  ASCII and NUL/VT are one byte; "FF", "89"
\* and a continuation byte on its own are no encoding; "C2" "A0" is U+00A0;
\* "EF" "BB" "BF" is U+FEFF and "EF" "BF" "BD" is U+FFFD
runeWidth(s) ==
  IF Head(s) \in {"FF", "89", "BB", "BF", "BD", "A0"} THEN 0
  ELSE IF Head(s) = "EF"
       THEN IF HasPrefix(s, utf8BOM) \/ HasPrefix(s, <<"EF", "BF", "BD">>) THEN 3 ELSE 0
  ELSE IF Head(s) = "C2"
       THEN IF HasPrefix(s, <<"C2", "A0">>) THEN 2 ELSE 0
  ELSE 1

\* utf8.Valid: every byte belongs to an encoding, which starts at the byte
\* or at one of the two before it (a byte that starts an encoding is never
\* inside another one)
utf8Valid(s) ==
  \A i \in 1..Len(s) :
    \E j \in {i - 2, i - 1, i} : j >= 1 /\ runeWidth(SubSeq(s, j, Len(s))) > i - j

(***************************************************************************)
(* The input directory.  An entry of the tree, in the order filepath.Walk  *)
(* visits it: name (path relative to the root), isDir, walkErr (Walk       *)
(* reports an error for the entry), fault ("none", "stat": os.Stat fails,  *)
(* as for a dangling symlink; "open": os.Open fails, as for a file without *)
(* read permission) and content (the file's bytes).                        *)
(***************************************************************************)
\* the entry fullPath names under root dir, NoEntry when there is none
LookupEntry(fsys, dir, fullPath) ==
  LET hits == {i \in 1..Len(fsys) : Join(dir, fsys[i].name) = fullPath}
  IN  IF hits = {} THEN [name |-> <<>>, isDir |-> FALSE, walkErr |-> FALSE, fault |-> "stat", content |-> <<>>] ELSE fsys[CHOOSE i \in hits : TRUE]

(***************************************************************************)
(* internal/utils: files.go                                                *)
(***************************************************************************)
\* http.DetectContentType over the model's bytes: the PNG signature, a leading
\* byte-order mark (text), then "no binary data byte => text/plain"
DetectContentType(data) ==
  IF HasPrefix(data, <<"89", "P", "N", "G", "\r", "\n", "1A", "\n">>) THEN <<"i", "m", "a", "g", "e", "/", "p", "n", "g">>
  ELSE IF HasPrefix(data, utf8BOM) THEN <<"t", "e", "x", "t", "/", "p", "l", "a", "i", "n", ";", " ", "c", "h", "a", "r", "s", "e", "t", "=", "u", "t", "f", "-", "8">>
  ELSE IF \E i \in 1..Len(data) : data[i] \in {"00", "1A"} THEN <<"a", "p", "p", "l", "i", "c", "a", "t", "i", "o", "n", "/", "o", "c", "t", "e", "t", "-", "s", "t", "r", "e", "a", "m">>
  ELSE <<"t", "e", "x", "t", "/", "p", "l", "a", "i", "n", ";", " ", "c", "h", "a", "r", "s", "e", "t", "=", "u", "t", "f", "-", "8">>

dotSvg == <<".", "s", "v", "g">>

IsTextFile(fsys, dir, path) ==
  Then(LookupEntry(fsys, dir, path), LAMBDA f :
    LET n == IF Len(f.content) < sniffLen THEN Len(f.content) ELSE sniffLen
        contentType == DetectContentType(SubSeq(f.content, 1, n))
    IN  IF f.fault # "none" THEN [isText |-> FALSE, err |-> "open"]
        ELSE IF HasSuffix(ToLower(path), dotSvg) THEN [isText |-> TRUE, err |-> "nil"]
        ELSE [isText |-> ~Contains(contentType, <<"b", "i", "n", "a", "r", "y">>), err |-> "nil"])

BinaryFileTypesHas(ext) == \E i \in 1..Len(BinaryFileTypes) : BinaryFileTypes[i][1] = ext

GetFileType(path) ==
  Then(ToLower(Ext(path)), LAMBDA ext :
    IF BinaryFileTypesHas(ext)
    THEN BinaryFileTypes[CHOOSE i \in 1..Len(BinaryFileTypes) : BinaryFileTypes[i][1] = ext][2]
    ELSE <<"B", "i", "n", "a", "r", "y">>)

\* variant: the extension table read without its .svg row
treatAsBinaryExceptSvg(path) ==
  \E ext \in {ToLower(Ext(path))} : BinaryFileTypesHas(ext) /\ ext # dotSvg

ShouldTreatAsBinary(path) == \E ext \in {ToLower(Ext(path))} : BinaryFileTypesHas(ext)

\* variant: no extension is whitespace sensitive
neverSensitive(ext) == FALSE

IsWhitespaceSensitive(ext) == ext \in WhitespaceDependentExtensions

isWhitespace(r) == r \in {" ", "\t", "\n", "0B", "\f", "\r"}

\* variant: the flag is cleared when a whitespace rune is skipped, so that a
\* run of whitespace is halved rather than collapsed
RECURSIVE halveWhitespaceLoop(_, _, _, _)
halveWhitespaceLoop(s, i, space, buf) ==
  IF i > Len(s) THEN buf
  ELSE IF isWhitespace(s[i])
       THEN IF ~space
            THEN halveWhitespaceLoop(s, i + 1, TRUE, Append(buf, " "))
            ELSE halveWhitespaceLoop(s, i + 1, FALSE, buf)
       ELSE halveWhitespaceLoop(s, i + 1, FALSE, Append(buf, s[i]))

\* the loop of RemoveWhitespace from byte i on: range yields the runes of s,
\* U+FFFD of width 1 for a byte that starts no encoding, and WriteRune
\* writes the rune's encoding
RECURSIVE removeWhitespaceLoop(_, _, _, _)
removeWhitespaceLoop(s, i, space, buf) ==
  IF i > Len(s) THEN buf
  ELSE IF isWhitespace(s[i])
       THEN IF ~space
            THEN removeWhitespaceLoop(s, i + 1, TRUE, Append(buf, " "))
            ELSE removeWhitespaceLoop(s, i + 1, space, buf)
       ELSE IF runeWidth(SubSeq(s, i, Len(s))) = 0
            THEN removeWhitespaceLoop(s, i + 1, FALSE, buf \o <<"EF", "BF", "BD">>)
            ELSE Then(i + runeWidth(SubSeq(s, i, Len(s))),
                      LAMBDA j : removeWhitespaceLoop(s, j, FALSE, buf \o SubSeq(s, i, j - 1)))

\* strings.TrimSpace of a valid string: the leading and trailing runes of
\* unicode.IsSpace go, which are the ASCII whitespace and U+00A0
TrimSpace(s) ==
  LET keep == {i \in 1..Len(s) :
                 /\ ~isWhitespace(s[i])
                 /\ ~(s[i] = "C2" /\ i < Len(s) /\ s[i + 1] = "A0")
                 /\ ~(s[i] = "A0" /\ i > 1 /\ s[i - 1] = "C2")}
  IN  IF keep = {} THEN <<>>
      ELSE SubSeq(s, CHOOSE i \in keep : \A j \in keep : i <= j, Max(keep))

RemoveWhitespace(s) == Then(removeWhitespaceLoop(s, 1, FALSE, <<>>), TrimSpace)

(***************************************************************************)
(* internal/utils: ignore.go                                               *)
(***************************************************************************)
\* the elements of a slash-separated path
RECURSIVE PathElements(_)
PathElements(p) ==
  LET cuts == {i \in 1..Len(p) : p[i] = "/"}
  IN  IF cuts = {} THEN <<p>>
      ELSE LET c == CHOOSE i \in cuts : \A j \in cuts : i <= j
           IN  <<SubSeq(p, 1, c - 1)>> \o Then(SubSeq(p, c + 1, Len(p)), PathElements)

\* a gitignore pattern without "/" against one path element: "*" stands for
\* any run of bytes other than "/", every other byte for itself
RECURSIVE GlobMatch(_, _)
GlobMatch(pat, s) ==
  IF pat = <<>> THEN s = <<>>
  ELSE IF Head(pat) = "*"
       THEN \E k \in 0..Len(s) : GlobMatch(Tail(pat), SubSeq(s, k + 1, Len(s)))
       ELSE s # <<>> /\ Head(s) = Head(pat) /\ GlobMatch(Tail(pat), Tail(s))

\* GitIgnore.MatchesPath for slash-free patterns: some element of the path
\* matches some pattern (a matching directory covers everything below it)
MatchesPath(lines, path) ==
  \E els \in {PathElements(path)} :
    \E i \in 1..Len(lines), k \in 1..Len(els) : GlobMatch(lines[i], els[k])

\* a nil *ignore.GitIgnore
NewIgnoreMatcher(patterns, useDefault) ==
  [customIgnore  |-> IF Len(patterns) > 0 THEN [set |-> TRUE, lines |-> patterns] ELSE [set |-> FALSE, lines |-> <<>>],
   defaultIgnore |-> IF useDefault THEN [set |-> TRUE, lines |-> DefaultIgnores] ELSE [set |-> FALSE, lines |-> <<>>]]

\* filepath.Separator of the build, and filepath.ToSlash
ToSlash(path) == [i \in 1..Len(path) |-> IF path[i] = "/" THEN "/" ELSE path[i]]

\* variant: only the default rules are consulted
defaultRulesOnly(im, relPath) ==
  im.defaultIgnore.set /\ MatchesPath(im.defaultIgnore.lines, ToSlash(relPath))

ShouldIgnore(im, relPath) ==
  \E path \in {ToSlash(relPath)} :
    IF im.defaultIgnore.set /\ MatchesPath(im.defaultIgnore.lines, path) THEN TRUE
    ELSE IF im.customIgnore.set /\ MatchesPath(im.customIgnore.lines, path) THEN TRUE
    ELSE FALSE

(***************************************************************************)
(* internal/processor: per-file processing                                 *)
(***************************************************************************)
typeText == <<"t", "e", "x", "t">>

headingMark == <<"#", " ">>

blankLine == <<"\n", "\n">>

fence3 == <<"60", "60", "60">>

\* [content, err]: the block of a text file, or the error
processTextFile(c, fsys, path) ==
  Then(LookupEntry(fsys, c.InputDir, path), LAMBDA f :
  Then(TrimPrefix(f.content, utf8BOM), LAMBDA content :
  LET ext        == Ext(path)
      contentStr == IF c.RemoveWhitespace /\ ~IsWhitespaceSensitive(ext)
                    THEN RemoveWhitespace(content) ELSE content
      rel        == Rel(c.InputDir, path)
      heading    == headingMark \o rel.path \o blankLine
  IN  IF f.fault # "none" THEN [content |-> <<>>, err |-> "read"]
      ELSE IF ~utf8Valid(content) THEN [content |-> <<>>, err |-> "utf8"]
      ELSE IF rel.err THEN [content |-> <<>>, err |-> "rel"]
      ELSE IF ext = <<".", "m", "d">> \/ ext = <<".", "m", "a", "r", "k", "d", "o", "w", "n">>
           THEN [content |-> heading \o <<"60", "60", "60", "60", "m", "d", "\n">> \o contentStr \o <<"\n", "60", "60", "60", "60", "\n", "\n">>, err |-> "nil"]
           ELSE [content |-> heading \o fence3 \o TrimPrefix(ext, <<".">>) \o <<"\n">>
                               \o contentStr \o <<"\n", "60", "60", "60", "\n", "\n">>,
                 err |-> "nil"]))

formatBinaryFileContent(path, fileType) ==
  LET description == IF HasSuffix(ToLower(path), dotSvg)
                     THEN <<"T", "h", "i", "s", " ", "i", "s", " ", "a", " ", "f", "i", "l", "e", " ", "o", "f", " ", "t", "y", "p", "e", ":", " ">> \o fileType
                     ELSE <<"T", "h", "i", "s", " ", "i", "s", " ", "a", " ", "b", "i", "n", "a", "r", "y", " ", "f", "i", "l", "e", " ", "o", "f", " ", "t", "y", "p", "e", ":", " ">> \o fileType
  IN  headingMark \o path \o blankLine \o description \o blankLine

\* the zero FileResult of a path
newFileResult(relPath) ==
  [RelativePath |-> relPath, Content |-> <<>>, FileType |-> <<>>, Size |-> 0, Error |-> "nil"]

processFile(c, fsys, relPath) ==
  Then(Join(c.InputDir, relPath), LAMBDA fullPath :
  Then(LookupEntry(fsys, c.InputDir, fullPath), LAMBDA f :
  Then(IsTextFile(fsys, c.InputDir, fullPath), LAMBDA isText :
  LET result == newFileResult(relPath)
      sized  == [result EXCEPT !.Size = Len(f.content)]
  IN  IF f.fault = "stat" THEN [result EXCEPT !.Error = "stat"]
      ELSE IF isText.err # "nil" THEN [sized EXCEPT !.Error = isText.err]
      ELSE IF isText.isText /\ ~ShouldTreatAsBinary(fullPath)
           THEN Then(processTextFile(c, fsys, fullPath), LAMBDA text :
                  IF text.err # "nil"
                  THEN [sized EXCEPT !.FileType = typeText, !.Error = text.err]
                  ELSE [sized EXCEPT !.FileType = typeText, !.Content = text.content])
           ELSE Then(GetFileType(fullPath), LAMBDA fileType :
                  [sized EXCEPT !.FileType = fileType,
                                !.Content = formatBinaryFileContent(relPath, fileType)]))))

(***************************************************************************)
(* The output side.  A world ws is what a writer call reads and changes:   *)
(*   w          the writer (single or multi)                               *)
(*   out        the output directory: path -> bytes of each existing file  *)
(*   stats      the ProcessorStats, its mutex state in field mu            *)
(*   unguarded  the stats fields stored so far without holding stats.mu    *)
(*   disk       the output destination: "ok"; "full", creates succeed and  *)
(*              writes fail; "gone", creates and writes fail               *)
(*   file       the local variable file of the call that creates a file    *)
(*   err        the error of the last step ("nil" for none)                *)
(***************************************************************************)
\* a nil *os.File; state is "nil", "open" or "closed"
NilFile == [path |-> <<>>, state |-> "nil"]

\* a nil *bufio.Writer; err is bufio's sticky error
ZeroStats ==
  [mu |-> "unlocked", TotalFiles |-> 0, IncludedCount |-> 0, IgnoredCount |-> 0,
   BinaryCount |-> 0, TotalSize |-> 0, IncludedFiles |-> <<>>, NumberOfFiles |-> 0,
   AverageFileSize |-> 0, SmallestFile |-> <<>>, SmallestFileSize |-> 0,
   LargestFile |-> <<>>, LargestFileSize |-> 0]

statsLock(ws) == [ws EXCEPT !.stats.mu = "locked"]

statsUnlock(ws) == [ws EXCEPT !.stats.mu = "unlocked"]

\* an assignment to a field of the stats; it is unguarded when mu is not held
statsStore(ws, field, v) ==
  [ws EXCEPT !.stats[field] = v,
             !.unguarded = IF ws.stats.mu = "locked" THEN @ ELSE @ \cup {field}]

\* a step that is skipped once an earlier step of the call has failed
ok(ws) == ws.err = "nil"

\* the files held open once they are S, after at most peak were held at once
held(S, peak) ==
  [open |-> S, peak |-> IF Cardinality(S) > peak THEN Cardinality(S) ELSE peak]

\* os.Create, os.OpenFile(O_CREATE|O_WRONLY|O_TRUNC) into the local file
osCreate(ws, path) ==
  IF ws.disk = "gone" THEN [ws EXCEPT !.file = NilFile, !.err = "io"]
  ELSE [ws EXCEPT !.out = [q \in (DOMAIN ws.out) \cup {path} |->
                             IF q = path THEN <<>> ELSE ws.out[q]],
                  !.handles = held(ws.handles.open \cup {path}, ws.handles.peak),
                  !.file = [path |-> path, state |-> "open"],
                  !.err = "nil"]

\* (*os.File).Write / WriteString: all of data, or an error and nothing
fileWrite(ws, file, data) ==
  IF file.state # "open" THEN [ws EXCEPT !.err = "closed"]
  ELSE IF ws.disk # "ok" THEN [ws EXCEPT !.err = "io"]
  ELSE [ws EXCEPT !.out[file.path] = @ \o data, !.err = "nil"]

\* (*os.File).Close of the writer's current file
fileClose(ws) ==
  IF ws.w.currentFile.state = "open"
  THEN [ws EXCEPT !.w.currentFile.state = "closed",
                  !.handles.open = @ \ {ws.w.currentFile.path}, !.err = "nil"]
  ELSE [ws EXCEPT !.err = "closed"]

\* bufio.NewWriterSize
NewWriterSize(size) == [set |-> TRUE, buf |-> <<>>, err |-> "nil", size |-> size]

\* (*bufio.Writer).Available
Available(bw) == bw.size - Len(bw.buf)

\* the end of a write bufio forwards to the file: an error sticks
forwarded(r) == IF ok(r) THEN r ELSE [r EXCEPT !.w.writer.err = r.err]

\* the end of a Flush: the buffer is empty once its bytes are in the file
flushed(r) == IF ok(r) THEN [r EXCEPT !.w.writer.buf = <<>>] ELSE forwarded(r)

\* (*bufio.Writer).Flush onto the current file
Flush(ws) ==
  IF ws.w.writer.err # "nil" THEN [ws EXCEPT !.err = ws.w.writer.err]
  ELSE IF ws.w.writer.buf = <<>> THEN [ws EXCEPT !.err = "nil"]
  ELSE Then(fileWrite(ws, ws.w.currentFile, ws.w.writer.buf), flushed)

\* WriteString after the buffer was filled and flushed: the rest of s is
\* forwarded when larger than the buffer, buffered otherwise
writeRest(r, rest) ==
  IF ~ok(r) THEN r
  ELSE IF Len(rest) > r.w.writer.size
       THEN Then(fileWrite(r, r.w.currentFile, rest), forwarded)
  ELSE [r EXCEPT !.w.writer.buf = rest, !.err = "nil"]

\* (*bufio.Writer).WriteString: s is buffered when it fits; otherwise an empty
\* buffer forwards s whole to the file, a non-empty one is filled and flushed
WriteString(ws, s) ==
  IF ws.w.writer.err # "nil" THEN [ws EXCEPT !.err = ws.w.writer.err]
  ELSE IF Len(s) <= Available(ws.w.writer)
       THEN [ws EXCEPT !.w.writer.buf = @ \o s, !.err = "nil"]
  ELSE IF ws.w.writer.buf = <<>>
       THEN Then(fileWrite(ws, ws.w.currentFile, s), forwarded)
  ELSE Then(Then([ws EXCEPT !.w.writer.buf = @ \o SubSeq(s, 1, Available(ws.w.writer))],
                 Flush),
            LAMBDA r : writeRest(r, SubSeq(s, Available(ws.w.writer) + 1, Len(s))))

(***************************************************************************)
(* Artifact names                                                          *)
(***************************************************************************)
\* filepath.Dir and filepath.Base of a clean path
Dir(path) ==
  LET cuts == {i \in 1..Len(path) : path[i] = "/"}
  IN  IF cuts = {} THEN <<".">> ELSE SubSeq(path, 1, Max(cuts) - 1)

Base(path) ==
  LET cuts == {i \in 1..Len(path) : path[i] = "/"}
  IN  IF cuts = {} THEN path ELSE SubSeq(path, Max(cuts) + 1, Len(path))

\* filepath.Join(dir, name), dir the result of Dir
JoinDir(dir, name) == IF dir = <<".">> THEN name ELSE Join(dir, name)

\* the decimal numeral of n >= 0 (the verb %d)
RECURSIVE Itoa(_)
Itoa(n) == IF n < 10 THEN <<<<"0", "1", "2", "3", "4", "5", "6", "7", "8", "9">>[n + 1]>>
           ELSE Itoa(n \div 10) \o <<<<"0", "1", "2", "3", "4", "5", "6", "7", "8", "9">>[(n % 10) + 1]>>

\* fmt.Sprintf(pat, n) with the one int operand n, over the verbs %d, %T and
\* %%: the first %d prints n, a first %T the operand's type; a later verb
\* finds no operand; any other verb is a wrong-type report; an operand no
\* verb used is reported at the end
RECURSIVE sprintfFrom(_, _, _)
sprintfFrom(pat, n, used) ==
  IF pat = <<>>
  THEN IF used THEN <<>> ELSE <<"%", "!", "(", "E", "X", "T", "R", "A", " ", "i", "n", "t", "=">> \o Itoa(n) \o <<")">>
  ELSE IF Head(pat) # "%" THEN <<Head(pat)>> \o sprintfFrom(Tail(pat), n, used)
  ELSE IF Len(pat) = 1 THEN <<"%", "!", "(", "N", "O", "V", "E", "R", "B", ")">> \o sprintfFrom(<<>>, n, used)
  ELSE LET verb == pat[2]
           rest == SubSeq(pat, 3, Len(pat))
       IN  IF verb = "%" THEN <<"%">> \o sprintfFrom(rest, n, used)
           ELSE IF used THEN <<"%", "!", verb>> \o <<"(", "M", "I", "S", "S", "I", "N", "G", ")">> \o sprintfFrom(rest, n, TRUE)
           ELSE IF verb = "d" THEN Itoa(n) \o sprintfFrom(rest, n, TRUE)
           ELSE IF verb = "T" THEN <<"i", "n", "t">> \o sprintfFrom(rest, n, TRUE)
           ELSE <<"%", "!", verb>> \o <<"(", "i", "n", "t", "=">> \o Itoa(n) \o <<")">> \o sprintfFrom(rest, n, TRUE)

Sprintf(pat, n) == sprintfFrom(pat, n, FALSE)

getCurrentPathForIndex(c, index) ==
  LET dir            == Dir(c.OutputFile)
      base           == Base(c.OutputFile)
      ext            == Ext(base)
      nameWithoutExt == TrimSuffix(base, ext)
  IN  IF c.OutputFilePattern # <<>>
      THEN JoinDir(dir, Sprintf(c.OutputFilePattern, index))
      ELSE JoinDir(dir, nameWithoutExt \o <<"_", "p", "a", "r", "t">> \o Itoa(index) \o ext)

getCurrentPath(c, wr) ==
  LET dir            == Dir(c.OutputFile)
      base           == Base(c.OutputFile)
      ext            == Ext(base)
      nameWithoutExt == TrimSuffix(base, ext)
  IN  IF c.OutputFilePattern # <<>>
      THEN JoinDir(dir, Sprintf(c.OutputFilePattern, wr.fileIndex))
      ELSE JoinDir(dir, nameWithoutExt \o <<"_", "p", "a", "r", "t">> \o Itoa(wr.fileIndex) \o ext)

(***************************************************************************)
(* internal/processor: the two writers                                     *)
(***************************************************************************)
\* the writer field of a Processor before NewProcessor sets it
NoWriter ==
  [kind |-> "none", config |-> [Split |-> FALSE], currentFile |-> NilFile,
   writer |-> [set |-> FALSE, buf |-> <<>>, err |-> "nil", size |-> 0], fileIndex |-> 0, outputSize |-> 0]

\* the singleFileWriter literal: its file is kept in currentFile
singleFileWriter(ws, c) ==
  IF ~ok(ws) THEN ws
  ELSE [ws EXCEPT !.w = [kind |-> "single", config |-> c, currentFile |-> ws.file,
                         writer |-> NewWriterSize(c.ChunkSize), fileIndex |-> 0,
                         outputSize |-> 0]]

newSingleFileWriter(ws, c) ==
  Then(osCreate(ws, c.OutputFile), LAMBDA r : singleFileWriter(r, c))

singleWrite(ws, content) == WriteString(ws, content)

\* return w.file.Close() after a Flush without error
closeFlushed(ws) == IF ok(ws) THEN fileClose(ws) ELSE ws

singleClose(ws) == Then(Flush(ws), closeFlushed)

\* variant: the buffer is not flushed before the file is closed
flushSkipped(ws) == [ws EXCEPT !.err = "nil"]

\* if w.writer != nil { Flush }
flushCurrent(ws) == IF ws.w.writer.set THEN Flush(ws) ELSE [ws EXCEPT !.err = "nil"]

\* if w.currentFile != nil { Close }
closeCurrent(ws) ==
  IF ok(ws) /\ ws.w.currentFile.state # "nil" THEN fileClose(ws) ELSE ws

\* w.fileIndex++
nextIndex(ws) == [ws EXCEPT !.w.fileIndex = @ + 1]

\* path := w.getCurrentPath(); os.OpenFile(path, ...); os.MkdirAll of the
\* artifact's directory is taken to succeed: it exists since NewProcessor
openCurrentPath(ws) == osCreate(ws, getCurrentPath(ws.w.config, ws.w))

openNext(ws) == IF ok(ws) THEN Then(nextIndex(ws), openCurrentPath) ELSE ws

\* file.Close() after a Write of the marker that failed
closeUnmarked(ws) == IF ok(ws) THEN ws ELSE [ws EXCEPT !.handles.open = @ \ {ws.file.path}]

\* file.Write(utf8BOM)
writeBOM(ws) == IF ok(ws) THEN Then(fileWrite(ws, ws.file, utf8BOM), closeUnmarked) ELSE ws

\* w.currentFile = file; w.writer = ...; w.stats.NumberOfFiles++
installFile(ws) ==
  IF ~ok(ws) THEN ws
  ELSE statsStore([ws EXCEPT !.w.currentFile = ws.file,
                             !.w.writer = NewWriterSize(ws.w.config.ChunkSize)],
                  "NumberOfFiles", ws.stats.NumberOfFiles + 1)

createNewFile(ws) ==
  Then(Then(Then(Then(flushCurrent(ws), closeCurrent), openNext), writeBOM), installFile)

\* the multiFileWriter literal
multiFileWriter(ws, c) ==
  [ws EXCEPT !.w = [kind |-> "multi", config |-> c, currentFile |-> NilFile,
                    writer |-> [set |-> FALSE, buf |-> <<>>, err |-> "nil", size |-> 0], fileIndex |-> 0, outputSize |-> 0]]

\* return nil, err
nilOnError(ws) == IF ok(ws) THEN ws ELSE [ws EXCEPT !.w = NoWriter]

\* variant: the first artifact is opened by the first Write
newMultiFileWriterLazy(ws, c) == multiFileWriter(ws, c)

newMultiFileWriter(ws, c) ==
  Then(Then(multiFileWriter(ws, c), createNewFile), nilOnError)

\* the first if of updateFileStats
noteSmallest(ws, path, size) ==
  IF ws.stats.SmallestFileSize = 0 \/ size < ws.stats.SmallestFileSize
  THEN Then(statsStore(ws, "SmallestFile", path),
            LAMBDA r : statsStore(r, "SmallestFileSize", size))
  ELSE ws

\* the second if of updateFileStats
noteLargest(ws, path, size) ==
  IF size > ws.stats.LargestFileSize
  THEN Then(statsStore(ws, "LargestFile", path),
            LAMBDA r : statsStore(r, "LargestFileSize", size))
  ELSE ws

updateFileStats(ws, path, size) ==
  Then(Then(Then(statsLock(ws), LAMBDA r : noteSmallest(r, path, size)),
            LAMBDA r : noteLargest(r, path, size)),
       statsUnlock)

\* the size ceiling of an artifact in bytes
ceilingBytes(c) == c.MaxFileSizeMB * BytesPerMB

\* variant: the count of the artifact left behind is carried over
keepSize(ws) == ws

\* w.outputSize = 0 after createNewFile
resetSize(ws) == IF ok(ws) THEN [ws EXCEPT !.w.outputSize = 0] ELSE ws

\* variant: a rotation condition that leaves the size out
rotateWithoutSize(wr, contentSize) == ~wr.writer.set

\* the condition under which Write opens a new artifact
mustRotate(wr, contentSize) ==
  ~wr.writer.set \/ wr.outputSize + contentSize > ceilingBytes(wr.config)

rotateIfNeeded(ws, contentSize) ==
  IF mustRotate(ws.w, contentSize) THEN Then(createNewFile(ws), resetSize)
  ELSE [ws EXCEPT !.err = "nil"]

\* w.writer.WriteString(content)
appendContent(ws, content) == IF ok(ws) THEN WriteString(ws, content) ELSE ws

\* w.outputSize += contentSize; w.updateFileStats(w.getCurrentPath(), w.outputSize)
countContent(ws, contentSize) ==
  IF ~ok(ws) THEN ws
  ELSE Then([ws EXCEPT !.w.outputSize = @ + contentSize],
            LAMBDA r : updateFileStats(r, getCurrentPath(r.w.config, r.w), r.w.outputSize))

\* the flush of an artifact that reached the ceiling
flushIfFull(ws) ==
  IF ok(ws) /\ ws.w.outputSize >= ceilingBytes(ws.w.config) THEN Flush(ws) ELSE ws

\* variant: the block is validated after it was appended
multiWriteLate(ws, content) ==
  Then(Then(rotateIfNeeded(ws, Len(content)), LAMBDA r : appendContent(r, content)),
       LAMBDA r : IF utf8Valid(content) THEN r ELSE [r EXCEPT !.err = "utf8"])

\* w.mu is taken for the whole call; only the goroutine of Process calls Write
multiWrite(ws, content) ==
  IF ~utf8Valid(content) THEN [ws EXCEPT !.err = "utf8"]
  ELSE Then(Then(Then(rotateIfNeeded(ws, Len(content)),
                      LAMBDA r : appendContent(r, content)),
                 LAMBDA r : countContent(r, Len(content))),
            flushIfFull)

\* math.MaxInt64, cut to the width of TLC's integers
MaxInt64 == 2147483647

\* the locals of calculateFinalStats before its loop
scanStart ==
  [total |-> 0, smallest |-> MaxInt64, largest |-> 0,
   smallestFile |-> <<>>, largestFile |-> <<>>, err |-> "nil"]

\* if size < smallest
scanSmaller(acc, path, size) ==
  IF size < acc.smallest THEN [acc EXCEPT !.smallest = size, !.smallestFile = path] ELSE acc

\* if size > largest
scanLarger(acc, path, size) ==
  IF size > acc.largest THEN [acc EXCEPT !.largest = size, !.largestFile = path] ELSE acc

\* one turn of the loop for an artifact that os.Stat finds
scanOne(acc, path, size) ==
  Then(Then([acc EXCEPT !.total = @ + size], LAMBDA a : scanSmaller(a, path, size)),
       LAMBDA a : scanLarger(a, path, size))

\* the loop of calculateFinalStats from index i on
RECURSIVE scanArtifacts(_, _, _)
scanArtifacts(ws, i, acc) ==
  IF i > ws.w.fileIndex THEN acc
  ELSE IF getCurrentPathForIndex(ws.w.config, i) \notin DOMAIN ws.out
       THEN [acc EXCEPT !.err = "stat"]
  ELSE Then(scanOne(acc, getCurrentPathForIndex(ws.w.config, i),
                    Len(ws.out[getCurrentPathForIndex(ws.w.config, i)])),
            LAMBDA a : scanArtifacts(ws, i + 1, a))

\* variant: the average is taken over one artifact more
storeAverageOffByOne(ws, total) ==
  statsStore(ws, "AverageFileSize", total \div (ws.stats.NumberOfFiles + 1))

\* if w.stats.NumberOfFiles > 0 { w.stats.AverageFileSize = ... }
storeAverage(ws, total) ==
  IF ws.stats.NumberOfFiles > 0
  THEN statsStore(ws, "AverageFileSize", total \div ws.stats.NumberOfFiles)
  ELSE ws

\* the stores that follow the loop, or the return of its error
storeFinalStats(ws, acc) ==
  IF acc.err # "nil" THEN [ws EXCEPT !.err = acc.err]
  ELSE Then(Then(Then(Then(Then(
         statsStore(ws, "SmallestFileSize", acc.smallest),
         LAMBDA r : statsStore(r, "SmallestFile", acc.smallestFile)),
         LAMBDA r : statsStore(r, "LargestFileSize", acc.largest)),
         LAMBDA r : statsStore(r, "LargestFile", acc.largestFile)),
         LAMBDA r : storeAverage(r, acc.total)),
         LAMBDA r : [r EXCEPT !.err = "nil"])

\* the body of calculateFinalStats under stats.mu
scanAndStore(ws) == Then(scanArtifacts(ws, 1, scanStart), LAMBDA acc : storeFinalStats(ws, acc))

calculateFinalStats(ws) == Then(Then(statsLock(ws), scanAndStore), statsUnlock)

\* the last step of multiFileWriter.Close
finishClose(ws) == IF ok(ws) THEN calculateFinalStats(ws) ELSE ws

multiClose(ws) == Then(Then(flushCurrent(ws), closeCurrent), finishClose)

\* the fileWriter interface
writerWrite(ws, content) ==
  IF ws.w.kind = "multi" THEN multiWrite(ws, content) ELSE singleWrite(ws, content)

writerClose(ws) ==
  IF ws.w.kind = "multi" THEN multiClose(ws) ELSE singleClose(ws)

(***************************************************************************)
(* internal/processor: the Processor                                       *)
(***************************************************************************)
\* the defaults NewProcessor fills in
chunkSizeDefaultMB == 1

maxFileSizeDefaultMB == 10

withDefaults(c) ==
  [c EXCEPT !.ChunkSize = IF @ = 0 THEN chunkSizeDefaultMB * BytesPerMB ELSE @,
            !.MaxFileSizeMB = IF @ = 0 THEN maxFileSizeDefaultMB ELSE @]

\* the writer NewProcessor makes for a config with its defaults filled in;
\* os.MkdirAll of the output directory is taken to succeed
newWriter(ws, cfg) ==
  IF cfg.Split THEN newMultiFileWriter(ws, cfg) ELSE newSingleFileWriter(ws, cfg)

\* the Processor literal: config and matcher
newProcessorFields(cfg) ==
  [config |-> cfg, matcher |-> NewIgnoreMatcher(<<>>, cfg.UseDefaultIgnores)]

\* the four stores of updateStats under stats.mu
countResult(ws, result) ==
  Then(IF result.FileType # typeText
       THEN statsStore(ws, "BinaryCount", ws.stats.BinaryCount + 1) ELSE ws,
       LAMBDA r : statsStore(r, "TotalSize", r.stats.TotalSize + result.Size))

\* variant: the path is put at the head of IncludedFiles
listResultFirst(ws, result) ==
  Then(statsStore(ws, "IncludedCount", ws.stats.IncludedCount + 1),
       LAMBDA r : statsStore(r, "IncludedFiles",
                             <<result.RelativePath>> \o r.stats.IncludedFiles))

listResult(ws, result) ==
  Then(statsStore(ws, "IncludedCount", ws.stats.IncludedCount + 1),
       LAMBDA r : statsStore(r, "IncludedFiles",
                             Append(r.stats.IncludedFiles, result.RelativePath)))

updateStats(ws, result) ==
  Then(Then(Then(statsLock(ws), LAMBDA r : listResult(r, result)),
            LAMBDA r : countResult(r, result)),
       statsUnlock)
(***************************************************************************)
(* The inputs of a run.                                                    *)
(***************************************************************************)
inputDir == <<"i", "n">>

outputFile == <<"o", ".", "m", "d">>

\* the default of the --ignore-file flag
aidigestignore ==
  <<".", "a", "i", "d", "i", "g", "e", "s", "t", "i", "g", "n", "o", "r", "e">>

\* the --chunk-size flag, in MB
chunkSizeFlag == 1

\* the default of the --max-size flag, in MB
maxFileSizeFlag == 10

\* the ProcessorConfig values runDigest may hand to NewProcessor; the ceiling
\* is read in split mode only, so it varies there only
Configs ==
  { c \in { [InputDir |-> inputDir, OutputFile |-> outputFile, UseDefaultIgnores |-> d,
             RemoveWhitespace |-> r, Split |-> s, MaxFileSizeMB |-> m,
             OutputFilePattern |-> <<>>, ChunkSize |-> chunkSizeFlag * BytesPerMB,
             IgnoreFile |-> aidigestignore] :
               d \in BOOLEAN, r \in BOOLEAN, s \in BOOLEAN, m \in 1..MaxCeilingMB } :
      c.Split \/ c.MaxFileSizeMB = 1 }

\* the root of the input directory, which Walk visits first
rootEntry == [name |-> <<".">>, isDir |-> TRUE, walkErr |-> FALSE, fault |-> "none", content |-> <<>>]

\* the entries an input directory is made of, in the lexical order of Walk
Universe ==
  << [name |-> <<"a", ".", "p", "y">>, isDir |-> FALSE, walkErr |-> FALSE, fault |-> "none",
      content |-> <<"x", " ", " ", "y">>],
     [name |-> <<"b", ".", "t", "x", "t">>, isDir |-> FALSE, walkErr |-> FALSE, fault |-> "none",
      content |-> <<"x", " ", " ", " ", " ", "y">>],
     [name |-> <<"b", "a", "d", ".", "t", "x", "t">>, isDir |-> FALSE, walkErr |-> FALSE, fault |-> "none",
      content |-> <<"F", "FF">>],
     [name |-> <<"l", "i", "n", "k">>, isDir |-> FALSE, walkErr |-> FALSE, fault |-> "stat",
      content |-> <<>>],
     [name |-> <<"l", "o", "c", "k", "e", "d">>, isDir |-> TRUE, walkErr |-> TRUE, fault |-> "none",
      content |-> <<>>],
     [name |-> <<"l", "o", "g", "o", ".", "s", "v", "g">>, isDir |-> FALSE, walkErr |-> FALSE, fault |-> "none",
      content |-> <<"<", "s", "v", "g", "/", ">">>],
     [name |-> <<"n", "o", "d", "e", "_", "m", "o", "d", "u", "l", "e", "s", "/", "p", "k", "g", "/", "i", "n", "d", "e", "x", ".", "j", "s">>, isDir |-> FALSE, walkErr |-> FALSE, fault |-> "none",
      content |-> <<"1">>],
     [name |-> <<"p", ".", "p", "n", "g">>, isDir |-> FALSE, walkErr |-> FALSE, fault |-> "none",
      content |-> <<"89", "P", "N", "G", "\r", "\n", "1A", "\n">>],
     [name |-> <<"s", "e", "c", "r", "e", "t">>, isDir |-> FALSE, walkErr |-> FALSE, fault |-> "open",
      content |-> <<"k">>] >>

RECURSIVE pickEntries(_)
pickEntries(S) ==
  IF S = {} THEN <<>>
  ELSE LET m == CHOOSE i \in S : \A j \in S : i <= j
       IN  <<Universe[m]>> \o pickEntries(S \ {m})

\* the input directories: the root and at most MaxFiles entries below it
Trees ==
  { <<rootEntry>> \o pickEntries(S) :
      S \in {T \in SUBSET (1..Len(Universe)) : Cardinality(T) <= MaxFiles} }

(***************************************************************************)
(* State.                                                                  *)
(***************************************************************************)
VARIABLES
  argv,        \* the flags of the digest command as the command line gives them
  call,        \* a call of a function of internal/utils: arguments and value
  config,      \* the ProcessorConfig of the run
  tree,        \* the input directory
  disk,        \* the output destination: "ok", "full" or "gone"
  w,           \* Processor.writer
  out,         \* the output directory: path -> bytes
  handles,     \* the files the process holds open (open), and the most it held at once (peak)
  stats,       \* Processor.stats
  unguarded,   \* stats fields stored without holding stats.mu
  p,           \* Processor.config and Processor.matcher
  pc,          \* where runDigest is: "new", "walk", "dispatch", "consume", "done", "failed";
               \* "make", "use" when a caller drives the writer directly
  walked,      \* entries of the tree Walk has visited
  files,       \* the files slice of collectFiles, then the argument of processFiles
  workers,     \* the goroutine of each file: "wait" (for the semaphore), "run", "done"
  semaphore,   \* slots of the semaphore channel in use
  wg,          \* the WaitGroup counter
  resultChan,  \* the result channel: buf, cap, closed
  closer,      \* the goroutine that closes resultChan: "none", "waiting", "done"
  ret,         \* what Process (or NewProcessor) returned: "none" while running, "nil", or the error
  errorLog,    \* the RelativePaths given to logger.LogError
  hist         \* history of the calls made: see hist0

vars == <<argv, call, config, tree, disk, w, out, handles, stats, unguarded, p, pc, walked, files,
          workers, semaphore, wg, resultChan, closer, ret, errorLog, hist>>

\* writes/closes: calls of Write and Close; lastOp/lastErr: the last writer call
\* and its error; closeErrs: the error of each Close; writeAfterClose,
\* sendAfterClose: a Write after a Close, a send on the closed channel;
\* accepted: the blocks Write took without error; sent, received: the
\* RelativePaths sent to and received from resultChan; lastArg: the content of
\* the last Write; acceptedAt: the index of the artifact that was current when
\* Write returned from each accepted block
hist0 ==
  [writes |-> 0, closes |-> 0, lastOp |-> "none", lastErr |-> "nil", closeErrs |-> <<>>,
   lastArg |-> <<>>, acceptedAt |-> <<>>,
   writeAfterClose |-> FALSE, sendAfterClose |-> FALSE, accepted |-> <<>>,
   sent |-> <<>>, received |-> <<>>]

World ==
  [w |-> w, out |-> out, handles |-> handles, stats |-> stats, unguarded |-> unguarded,
   disk |-> disk,
   file |-> NilFile, err |-> "nil"]

SetWorld(ws) ==
  /\ w' = ws.w
  /\ out' = ws.out
  /\ handles' = ws.handles
  /\ stats' = ws.stats
  /\ unguarded' = ws.unguarded

\* no function of internal/utils is being followed
noCall ==
  [fn |-> "none", patterns |-> <<>>, useDefault |-> FALSE, arg |-> <<>>,
   applied |-> 0, before |-> <<>>, value |-> <<>>]

\* no command line is being followed: the flag variables hold their defaults
noArgv ==
  [noDefaultIgnores |-> "absent", ignoreFile |-> "absent", split |-> "absent",
   maxSize |-> "absent", chunkSize |-> "absent", outputPattern |-> "absent"]

\* the state before runDigest calls NewProcessor, but for the call followed
Start(c, t, at) ==
  /\ config = c
  /\ tree = t
  /\ disk = "ok"
  /\ w = NoWriter
  /\ out = <<>>
  /\ handles = [open |-> {}, peak |-> 0]
  /\ stats = ZeroStats
  /\ unguarded = {}
  /\ p = [config |-> c, matcher |-> NewIgnoreMatcher(<<>>, FALSE)]
  /\ pc = at
  /\ walked = 0
  /\ files = <<>>
  /\ workers = <<>>
  /\ semaphore = 0
  /\ wg = 0
  /\ resultChan = [buf |-> <<>>, cap |-> 0, closed |-> FALSE]
  /\ closer = "none"
  /\ ret = "none"
  /\ errorLog = <<>>
  /\ hist = hist0

Init == \E c \in Configs, t \in Trees : Start(c, t, "new") /\ call = noCall /\ argv = noArgv

\* a call of Write as the history records it
noteWrite(h, content, r) ==
  [h EXCEPT !.writes = @ + 1, !.lastOp = "Write", !.lastErr = r.err, !.lastArg = content,
            !.writeAfterClose = @ \/ h.closes > 0,
            !.accepted = IF r.err = "nil" THEN Append(@, content) ELSE @,
            !.acceptedAt = IF r.err = "nil" THEN Append(@, r.w.fileIndex) ELSE @]

\* a call of Close as the history records it
noteClose(h, r) ==
  [h EXCEPT !.closes = @ + 1, !.lastOp = "Close", !.lastErr = r.err,
            !.closeErrs = Append(@, r.err)]

\* a receive from resultChan as the history records it
noteReceive(h, result) == [h EXCEPT !.received = Append(@, result.RelativePath)]

(***************************************************************************)
(* The environment: the output destination fills up (an empty file can     *)
(* still be created, no byte written) at any time, or is away from the     *)
(* start (creates fail as well).  Only creates and writes see it, so it is *)
(* taken before a step that may make one.                                  *)
(***************************************************************************)
DiskFails ==
  /\ disk = "ok"
  /\ pc \in {"new", "consume", "make", "use"}
  /\ disk' \in {"full"} \cup (IF pc \in {"new", "make"} THEN {"gone"} ELSE {})
  /\ UNCHANGED <<argv, call, config, tree, w, out, handles, stats, unguarded, p, pc, walked, files,
                 workers, semaphore, wg, resultChan, closer, ret, errorLog, hist>>

(***************************************************************************)
(* runDigest: NewProcessor, then Process.                                  *)
(***************************************************************************)
\* the return of NewProcessor once the writer was made, or failed to be
Constructed(made, next) ==
  /\ SetWorld(made)
  /\ p' = IF ok(made) THEN newProcessorFields(made.w.config) ELSE p
  /\ pc' = IF ok(made) THEN next ELSE "failed"
  /\ ret' = IF ok(made) THEN ret ELSE made.err

NewProcessorCall ==
  /\ pc = "new"
  /\ \E made \in {newWriter(World, withDefaults(config))} : Constructed(made, "walk")
  /\ UNCHANGED <<argv, call, config, tree, disk, walked, files, workers, semaphore, wg,
                 resultChan, closer, errorLog, hist>>

\* the return of Process once the writer was closed: the error of Close is dropped
Returned(closed, h, e) ==
  /\ SetWorld(closed)
  /\ hist' = noteClose(h, closed)
  /\ pc' = "done"
  /\ ret' = e

\* variant: Close called at the end of Process instead of deferred
ProcessReturnsCloseAtEnd(ws, h, e) ==
  IF e = "nil" THEN \E closed \in {writerClose(ws)} : Returned(closed, h, e)
  ELSE /\ SetWorld(ws)
       /\ hist' = h
       /\ pc' = "done"
       /\ ret' = e

\* Process returns e: the deferred p.writer.Close() runs first
ProcessReturns(ws, h, e) == \E closed \in {writerClose(ws)} : Returned(closed, h, e)

(***************************************************************************)
(* collectFiles: one action per call of the callback of filepath.Walk.     *)
(***************************************************************************)
\* the path Walk hands to its callback for an entry
walkPath(e) == IF e = rootEntry THEN p.config.InputDir ELSE Join(p.config.InputDir, e.name)

\* filepath.Rel(p.config.InputDir, path) for an entry
relOf(e) == Rel(p.config.InputDir, walkPath(e))

\* the callback returns an error: Walk's own, or that of Rel for a file
walkFails(e) == e.walkErr \/ (~e.isDir /\ relOf(e).err)

\* variant: the listing gathered before the error is returned with it
filesSoFar(fs) == fs

\* what collectFiles returns as its listing when Walk returned an error
filesOnError(fs) == <<>>

\* variant: an ignored file is skipped without being counted
skipUncounted(ws) == ws

\* p.stats.IgnoredCount++ between Lock and Unlock
countIgnored(ws) ==
  Then(Then(statsLock(ws),
            LAMBDA r : statsStore(r, "IgnoredCount", r.stats.IgnoredCount + 1)),
       statsUnlock)

\* the callback on a directory
WalkDir ==
  /\ pc = "walk" /\ walked < Len(tree)
  /\ ~walkFails(tree[walked + 1]) /\ tree[walked + 1].isDir
  /\ walked' = walked + 1
  /\ UNCHANGED <<argv, call, config, tree, disk, w, out, handles, stats, unguarded, p, pc, files,
                 workers, semaphore, wg, resultChan, closer, ret, errorLog, hist>>

\* the callback on a file the matcher ignores
WalkIgnored ==
  /\ pc = "walk" /\ walked < Len(tree)
  /\ ~walkFails(tree[walked + 1]) /\ ~tree[walked + 1].isDir
  /\ ShouldIgnore(p.matcher, relOf(tree[walked + 1]).path)
  /\ \E counted \in {countIgnored(World)} : SetWorld(counted)
  /\ walked' = walked + 1
  /\ UNCHANGED <<argv, call, config, tree, disk, p, pc, files, workers, semaphore, wg,
                 resultChan, closer, ret, errorLog, hist>>

\* the callback on a file that is kept
WalkFile ==
  /\ pc = "walk" /\ walked < Len(tree)
  /\ ~walkFails(tree[walked + 1]) /\ ~tree[walked + 1].isDir
  /\ ~ShouldIgnore(p.matcher, relOf(tree[walked + 1]).path)
  /\ files' = Append(files, relOf(tree[walked + 1]).path)
  /\ walked' = walked + 1
  /\ UNCHANGED <<argv, call, config, tree, disk, w, out, handles, stats, unguarded, p, pc,
                 workers, semaphore, wg, resultChan, closer, ret, errorLog, hist>>

\* the callback returns an error: Walk stops, collectFiles returns (nil, err)
\* and Process returns the error
WalkError ==
  /\ pc = "walk" /\ walked < Len(tree)
  /\ walkFails(tree[walked + 1])
  /\ files' = filesOnError(files)
  /\ ProcessReturns(World, hist, "collect")
  /\ UNCHANGED <<argv, call, config, tree, disk, p, walked, workers, semaphore, wg,
                 resultChan, closer, errorLog>>

\* the end of collectFiles: p.stats.TotalFiles = len(files)
CollectReturn ==
  /\ pc = "walk" /\ walked = Len(tree)
  /\ SetWorld(statsStore(World, "TotalFiles", Len(files)))
  /\ pc' = "dispatch"
  /\ UNCHANGED <<argv, call, config, tree, disk, p, walked, files, workers, semaphore, wg,
                 resultChan, closer, ret, errorLog, hist>>

(***************************************************************************)
(* processFiles: the channel, one goroutine per file, the closing          *)
(* goroutine.                                                              *)
(***************************************************************************)
\* variant: a channel one result short
resultCapShort(listed) == Len(listed) - 1

\* make(chan FileResult, len(files))
resultCap(listed) == Len(listed)

ProcessFilesCall ==
  /\ pc = "dispatch"
  /\ resultChan' = [buf |-> <<>>, cap |-> resultCap(files), closed |-> FALSE]
  /\ workers' = [i \in 1..Len(files) |-> "wait"]
  /\ wg' = Len(files)
  /\ closer' = "waiting"
  /\ pc' = "consume"
  /\ UNCHANGED <<argv, call, config, tree, disk, w, out, handles, stats, unguarded, p, walked, files,
                 semaphore, ret, errorLog, hist>>

\* variant: a semaphore that never blocks its sender
slotAlwaysFree(n) == TRUE

\* variant: a semaphore without a slot
slotNeverFree(n) == FALSE

\* a send on the semaphore channel (capacity maxConcurrency) can proceed
slotFree(n) == n < maxConcurrency

\* semaphore <- struct{}{}
WorkerAcquire(i) ==
  /\ workers[i] = "wait"
  /\ slotFree(semaphore)
  /\ semaphore' = semaphore + 1
  /\ workers' = [workers EXCEPT ![i] = "run"]
  /\ UNCHANGED <<argv, call, config, tree, disk, w, out, handles, stats, unguarded, p, pc, walked, files,
                 wg, resultChan, closer, ret, errorLog, hist>>

\* variant: the result is sent twice
SendTwice(result) ==
  /\ resultChan' = [resultChan EXCEPT !.buf = Append(Append(@, result), result)]
  /\ hist' = [hist EXCEPT !.sent = Append(Append(@, result.RelativePath), result.RelativePath),
                          !.sendAfterClose = @ \/ resultChan.closed]

\* resultChan <- result
Send(result) ==
  /\ resultChan' = [resultChan EXCEPT !.buf = Append(@, result)]
  /\ hist' = [hist EXCEPT !.sent = Append(@, result.RelativePath),
                          !.sendAfterClose = @ \/ resultChan.closed]

\* processFile, the send of the result, then the deferred <-semaphore and wg.Done()
WorkerRun(i) ==
  /\ workers[i] = "run"
  /\ Len(resultChan.buf) < resultChan.cap
  /\ \E result \in {processFile(p.config, tree, files[i])} : Send(result)
  /\ semaphore' = semaphore - 1
  /\ wg' = wg - 1
  /\ workers' = [workers EXCEPT ![i] = "done"]
  /\ UNCHANGED <<argv, call, config, tree, disk, w, out, handles, stats, unguarded, p, pc, walked, files,
                 closer, ret, errorLog>>

\* variant: a closing goroutine that does not wait
waitSkipped(n) == TRUE

\* wg.Wait() returns
waitReturns(n) == n = 0

\* wg.Wait() returned: close(resultChan)
CloserCloses ==
  /\ closer = "waiting"
  /\ waitReturns(wg)
  /\ resultChan' = [resultChan EXCEPT !.closed = TRUE]
  /\ closer' = "done"
  /\ UNCHANGED <<argv, call, config, tree, disk, w, out, handles, stats, unguarded, p, pc, walked, files,
                 workers, semaphore, wg, ret, errorLog, hist>>

(***************************************************************************)
(* Process: the loop over the results.                                     *)
(***************************************************************************)
\* variant: a loop that does not look at result.Error
errorUnchecked(result) == FALSE

\* if result.Error != nil
hasError(result) == result.Error # "nil"

\* the loop receives a result that carries an error: LogError, continue
ConsumeError ==
  /\ pc = "consume"
  /\ resultChan.buf # <<>>
  /\ hasError(Head(resultChan.buf))
  /\ resultChan' = [resultChan EXCEPT !.buf = Tail(@)]
  /\ errorLog' = Append(errorLog, Head(resultChan.buf).RelativePath)
  /\ hist' = noteReceive(hist, Head(resultChan.buf))
  /\ UNCHANGED <<argv, call, config, tree, disk, w, out, handles, stats, unguarded, p, pc, walked, files,
                 workers, semaphore, wg, closer, ret>>

\* after p.writer.Write(result.Content): the return of its error, or updateStats
Written(written, result) ==
  IF ~ok(written)
  THEN ProcessReturns(written, noteReceive(noteWrite(hist, result.Content, written), result),
                      "write")
  ELSE /\ \E counted \in {updateStats(written, result)} : SetWorld(counted)
       /\ hist' = noteReceive(noteWrite(hist, result.Content, written), result)
       /\ UNCHANGED <<pc, ret>>

\* the loop receives a result without error
ConsumeWrite ==
  /\ pc = "consume"
  /\ resultChan.buf # <<>>
  /\ ~hasError(Head(resultChan.buf))
  /\ resultChan' = [resultChan EXCEPT !.buf = Tail(@)]
  /\ \E written \in {writerWrite(World, Head(resultChan.buf).Content)} :
       Written(written, Head(resultChan.buf))
  /\ UNCHANGED <<argv, call, config, tree, disk, p, walked, files, workers, semaphore, wg,
                 closer, errorLog>>

\* the channel is closed and drained: printStats, return nil
ConsumeDone ==
  /\ pc = "consume"
  /\ resultChan.buf = <<>> /\ resultChan.closed
  /\ ProcessReturns(World, hist, "nil")
  /\ UNCHANGED <<argv, call, config, tree, disk, p, walked, files, workers, semaphore, wg,
                 resultChan, closer, errorLog>>

Next ==
  \/ DiskFails
  \/ NewProcessorCall
  \/ WalkDir
  \/ WalkIgnored
  \/ WalkFile
  \/ WalkError
  \/ CollectReturn
  \/ ProcessFilesCall
  \/ \E i \in DOMAIN workers : WorkerAcquire(i)
  \/ \E i \in DOMAIN workers : WorkerRun(i)
  \/ CloserCloses
  \/ ConsumeError
  \/ ConsumeWrite
  \/ ConsumeDone

Spec == Init /\ [][Next]_vars

\* a step of the goroutine that runs runDigest
mainStep ==
  \/ NewProcessorCall
  \/ WalkDir
  \/ WalkIgnored
  \/ WalkFile
  \/ WalkError
  \/ CollectReturn
  \/ ProcessFilesCall
  \/ ConsumeError
  \/ ConsumeWrite
  \/ ConsumeDone

\* a step of the goroutine of file i
workerStep(i) == i \in DOMAIN workers /\ (WorkerAcquire(i) \/ WorkerRun(i))

\* a whole run under a fair scheduler: a goroutine that can take a step takes
\* one; a sender blocked on the semaphore is served when a slot is free
\* (blocked senders of a channel are queued).  The output destination fails
\* or not as it likes.
SpecFair ==
  /\ Init /\ [][Next]_vars
  /\ WF_vars(mainStep)
  /\ \A i \in 1..MaxFiles : SF_vars(workerStep(i))
  /\ WF_vars(CloserCloses)

(***************************************************************************)
(* The fileWriter interface driven directly: a caller makes the writer as  *)
(* NewProcessor does, then calls Write and Close in any order.             *)
(***************************************************************************)
\* calls of Write and Close a caller makes
MaxCalls == 4

\* the block processFile renders for entry i of the Universe
blockOf(i) ==
  processFile(CHOOSE c \in Configs : TRUE, <<rootEntry, Universe[i]>>, Universe[i].name).Content

\* the contents a caller writes: the blocks of a.py and logo.svg, the byte FF
Blocks == {blockOf(1), blockOf(6), <<"FF">>}

InitWriter == \E c \in Configs : Start(c, <<rootEntry>>, "make") /\ call = noCall /\ argv = noArgv

MakeWriter ==
  /\ pc = "make"
  /\ \E made \in {newWriter(World, withDefaults(config))} : Constructed(made, "use")
  /\ UNCHANGED <<argv, call, config, tree, disk, walked, files, workers, semaphore, wg,
                 resultChan, closer, errorLog, hist>>

\* the end of a call of Write
WriteReturns(written, content) ==
  /\ SetWorld(written)
  /\ hist' = noteWrite(hist, content, written)

CallWrite(content) ==
  /\ pc = "use"
  /\ hist.writes + hist.closes < MaxCalls
  /\ \E written \in {writerWrite(World, content)} : WriteReturns(written, content)
  /\ UNCHANGED <<argv, call, config, tree, disk, p, pc, walked, files, workers, semaphore, wg,
                 resultChan, closer, ret, errorLog>>

\* the end of a call of Close
CloseReturns(closed) ==
  /\ SetWorld(closed)
  /\ hist' = noteClose(hist, closed)

CallClose ==
  /\ pc = "use"
  /\ hist.writes + hist.closes < MaxCalls
  /\ \E closed \in {writerClose(World)} : CloseReturns(closed)
  /\ UNCHANGED <<argv, call, config, tree, disk, p, pc, walked, files, workers, semaphore, wg,
                 resultChan, closer, ret, errorLog>>

NextWriter ==
  \/ DiskFails
  \/ MakeWriter
  \/ \E content \in Blocks : CallWrite(content)
  \/ CallClose

SpecWriter == InitWriter /\ [][NextWriter]_vars

(***************************************************************************)
(* The worker pool under load: the default configuration on a directory of *)
(* more files than the semaphore has slots, followed up to the point where *)
(* MaxPoolSends workers have sent their result.                            *)
(***************************************************************************)
\* results sent while the pool is followed
MaxPoolSends == 1

\* the configuration of a digest run without flags
defaultConfig ==
  [InputDir |-> inputDir, OutputFile |-> outputFile, UseDefaultIgnores |-> TRUE,
   RemoveWhitespace |-> FALSE, Split |-> FALSE, MaxFileSizeMB |-> maxFileSizeFlag,
   OutputFilePattern |-> <<>>, ChunkSize |-> chunkSizeFlag * BytesPerMB,
             IgnoreFile |-> aidigestignore]

\* a directory of maxConcurrency + 1 one-byte files a, b, c, ...
poolTree ==
  <<rootEntry>> \o
    [i \in 1..(maxConcurrency + 1) |->
       [name |-> <<lowerLetters[i]>>, isDir |-> FALSE, walkErr |-> FALSE, fault |-> "none",
        content |-> <<"x">>]]

InitPool == Start(defaultConfig, poolTree, "new") /\ call = noCall /\ argv = noArgv

\* a worker runs while fewer than MaxPoolSends results were sent
PoolWorkerRun(i) ==
  /\ Len(hist.sent) < MaxPoolSends
  /\ WorkerRun(i)

NextPool ==
  \/ NewProcessorCall
  \/ WalkDir
  \/ WalkFile
  \/ CollectReturn
  \/ ProcessFilesCall
  \/ \E i \in DOMAIN workers : WorkerAcquire(i)
  \/ \E i \in DOMAIN workers : PoolWorkerRun(i)

SpecPool == InitPool /\ [][NextPool]_vars

(***************************************************************************)
(* The functions of internal/utils on their own: a caller applies          *)
(* ShouldIgnore to a matcher and a path, or RemoveWhitespace to a string   *)
(* and then to what it returned.                                           *)
(***************************************************************************)
\* the longest string handed to RemoveWhitespace
MaxLen == 5

\* the calls followed: ShouldIgnore for a matcher made of no, one or two custom
\* patterns, with and without the default rules, on paths of the universe
\* and below directories; RemoveWhitespace on the strings of at most MaxLen
\* bytes over a letter, two kinds of whitespace, a byte that starts no
\* encoding and the two bytes of U+00A0
InitUtils ==
  /\ Start(defaultConfig, <<rootEntry>>, "utils")
  /\ argv = noArgv
  /\ \/ \E ps \in { <<>>, << <<"*", ".", "p", "y">> >>, << <<"s", "r", "c">> >>,
                       << <<"*", ".", "t", "x", "t">>, <<"p", "k", "g">> >> },
            d \in BOOLEAN,
            path \in {Universe[i].name : i \in DOMAIN Universe}
                       \cup { <<"s", "r", "c", "/", "m", ".", "g", "o">>,
                              <<"v", "e", "n", "d", "o", "r", "/", "a", ".", "p", "y">>,
                              <<"s", "r", "c", ".", "g", "o">> } :
          call = [noCall EXCEPT !.fn = "ShouldIgnore", !.patterns = ps, !.useDefault = d,
                                !.arg = path]
     \/ \E n \in 0..MaxLen :
          \E s \in [1..n -> {"a", " ", "\n", "FF", "C2", "A0"}] :
            call = [noCall EXCEPT !.fn = "RemoveWhitespace", !.arg = s, !.value = s]

\* utils.NewIgnoreMatcher(patterns, useDefault).ShouldIgnore(path)
CallShouldIgnore ==
  /\ call.fn = "ShouldIgnore" /\ call.applied = 0
  /\ call' = [call EXCEPT !.applied = 1,
                           !.value = ShouldIgnore(NewIgnoreMatcher(call.patterns, call.useDefault),
                                                  call.arg)]
  /\ UNCHANGED <<argv, config, tree, disk, w, out, handles, stats, unguarded, p, pc, walked, files,
                 workers, semaphore, wg, resultChan, closer, ret, errorLog, hist>>

\* utils.RemoveWhitespace applied to the string, then to its own value
CallRemoveWhitespace ==
  /\ call.fn = "RemoveWhitespace" /\ call.applied < 2
  /\ call' = [call EXCEPT !.applied = @ + 1, !.before = call.value,
                           !.value = RemoveWhitespace(call.value)]
  /\ UNCHANGED <<argv, config, tree, disk, w, out, handles, stats, unguarded, p, pc, walked, files,
                 workers, semaphore, wg, resultChan, closer, ret, errorLog, hist>>

NextUtils == CallShouldIgnore \/ CallRemoveWhitespace

SpecUtils == InitUtils /\ [][NextUtils]_vars

(***************************************************************************)
(* A split run over three text files whose blocks are five, six and two    *)
(* tenths of the ceiling, with the output destination in order.            *)
(***************************************************************************)
\* the directory of the three files a, b and c: the content of each is what
\* its block of heading and fences leaves of its share of the ceiling
splitTree ==
  <<rootEntry>> \o
    [i \in 1..3 |->
       [name |-> <<lowerLetters[i]>>, isDir |-> FALSE, walkErr |-> FALSE, fault |-> "none",
        content |->
          [k \in 1..((MaxCeilingMB * BytesPerMB * <<5, 6, 2>>[i]) \div 10
                       - Len(headingMark \o <<"a">> \o blankLine \o fence3 \o <<"\n">>
                               \o <<"\n", "60", "60", "60", "\n", "\n">>)) |-> "x"]]]

InitSplit ==
  /\ Start([defaultConfig EXCEPT !.Split = TRUE, !.MaxFileSizeMB = MaxCeilingMB],
           splitTree, "new")
  /\ call = noCall /\ argv = noArgv

NextSplit ==
  \/ NewProcessorCall
  \/ WalkDir
  \/ WalkFile
  \/ CollectReturn
  \/ ProcessFilesCall
  \/ \E i \in DOMAIN workers : WorkerAcquire(i)
  \/ \E i \in DOMAIN workers : WorkerRun(i)
  \/ CloserCloses
  \/ ConsumeWrite
  \/ ConsumeDone

SpecSplit == InitSplit /\ [][NextSplit]_vars

(***************************************************************************)
(* The digest command: cobra parses the flags into the package variables,  *)
(* PreRunE is validateFlags, RunE is runDigest.  A flag of argv is <<>>     *)
(* when the command line does not give it and <<v>> when it gives it with  *)
(* value v; a boolean flag given bare is <<"">>.  The input directory      *)
(* exists and the output directory can be made.                            *)
(***************************************************************************)
\* pflag on a BoolVar: a flag not given leaves the default, a bare flag stores
\* NoOptDefVal, which is "true", and --flag=v stores v
boolFlag(def, f) == IF f = <<>> THEN def ELSE IF f[1] = "" THEN TRUE ELSE f[1] = "true"

\* pflag on an IntVar or a StringVar
flagOr(def, f) == IF f = <<>> THEN def ELSE f[1]

\* the values of an int wrap around: 2^64 of them on the machine, and as many
\* megabytes here as the scale of BytesPerMB leaves
IntSpan == 8 * BytesPerMB

wrapInt(x) == ((x + IntSpan \div 2) % IntSpan) - IntSpan \div 2

\* variant: no flag is checked
validateNothing(a) == "nil"

\* validateFlags after os.Stat and os.MkdirAll: the error it returns
validateFlags(a) ==
  IF flagOr(maxFileSizeFlag, a.maxSize) <= 0 THEN "max-size"
  ELSE IF flagOr(chunkSizeFlag, a.chunkSize) <= 0 THEN "chunk-size"
  ELSE "nil"

\* the ProcessorConfig literal of runDigest
runDigestConfig(a) ==
  [InputDir |-> inputDir, OutputFile |-> outputFile,
   UseDefaultIgnores |-> boolFlag(TRUE, a.noDefaultIgnores),
   RemoveWhitespace |-> FALSE,
   IgnoreFile |-> flagOr(aidigestignore, a.ignoreFile),
   Split |-> boolFlag(FALSE, a.split),
   MaxFileSizeMB |-> flagOr(maxFileSizeFlag, a.maxSize),
   OutputFilePattern |-> flagOr(<<>>, a.outputPattern),
   ChunkSize |-> wrapInt(flagOr(chunkSizeFlag, a.chunkSize) * BytesPerMB)]

\* a name given with --ignore-file
dotIgn == <<".", "i", "g", "n">>

\* patterns given with --output-pattern: p%d.md and p%T.md
patternD == <<"p", "%", "d", ".", "m", "d">>

patternT == <<"p", "%", "T", ".", "m", "d">>

\* the command lines followed
CmdLines ==
  [noDefaultIgnores : {<<>>, <<"">>, <<"false">>},
   ignoreFile : {<<>>, <<dotIgn>>},
   split : {<<>>, <<"">>},
   maxSize : {<<>>, <<-1>>, <<0>>, <<1>>},
   chunkSize : {<<>>, <<-1>>, <<0>>, <<IntSpan \div BytesPerMB>>},
   outputPattern : {<<>>, <<patternD>>, <<patternT>>}]

\* the input directory of the command: the ignore file under the name the
\* command line gives it, listing *.py, then a.py and a file under node_modules
cmdTree(a) ==
  <<rootEntry,
    [name |-> flagOr(aidigestignore, a.ignoreFile), isDir |-> FALSE, walkErr |-> FALSE,
     fault |-> "none", content |-> <<"*", ".", "p", "y", "\n">>],
    Universe[1], Universe[7]>>

InitCmd ==
  \E a \in CmdLines :
    /\ Start(defaultConfig, cmdTree(a), "args")
    /\ argv = a
    /\ call = noCall

\* PreRunE: an error of validateFlags ends the command before RunE
ValidateFlagsCall ==
  /\ pc = "args"
  /\ pc' = IF validateFlags(argv) = "nil" THEN "run" ELSE "failed"
  /\ ret' = IF validateFlags(argv) = "nil" THEN ret ELSE validateFlags(argv)
  /\ UNCHANGED <<argv, call, config, tree, disk, w, out, handles, stats, unguarded, p, walked,
                 files, workers, semaphore, wg, resultChan, closer, errorLog, hist>>

\* RunE: the configuration is built from the flag variables
RunDigestCall ==
  /\ pc = "run"
  /\ config' = runDigestConfig(argv)
  /\ pc' = "new"
  /\ UNCHANGED <<argv, call, tree, disk, w, out, handles, stats, unguarded, p, walked, files,
                 workers, semaphore, wg, resultChan, closer, ret, errorLog, hist>>

NextCmd ==
  \/ ValidateFlagsCall
  \/ RunDigestCall
  \/ NewProcessorCall
  \/ WalkIgnored
  \/ WalkDir
  \/ WalkFile
  \/ CollectReturn
  \/ ProcessFilesCall
  \/ \E i \in DOMAIN workers : WorkerAcquire(i)
  \/ \E i \in DOMAIN workers : WorkerRun(i)
  \/ CloserCloses
  \/ ConsumeWrite
  \/ ConsumeDone

SpecCmd == InitCmd /\ [][NextCmd]_vars

(***************************************************************************)
(* Properties.                                                             *)
(***************************************************************************)
Range(s) == {s[i] : i \in DOMAIN s}

NoDuplicates(s) == \A i, j \in DOMAIN s : s[i] = s[j] => i = j

\* the RelativePaths of a sequence of FileResults
pathsOf(rs) == [i \in DOMAIN rs |-> rs[i].RelativePath]

\* the block bytes an artifact has accumulated: what follows the marker on
\* disk and, for the current artifact, what the writer still buffers
accumulated(path) ==
  SubSeq(out[path], Len(utf8BOM) + 1, Len(out[path]))
    \o (IF path = w.currentFile.path THEN w.writer.buf ELSE <<>>)

\* C1: after a run in which Process returns nil, IncludedCount + IgnoredCount
\* + (the number of results that carried an error) equals TotalFiles.
C1_CountsAddUpToTotal ==
  (pc = "done" /\ ret = "nil")
    => stats.IncludedCount + stats.IgnoredCount + Len(errorLog) = stats.TotalFiles

\* C2: in split mode, after any sequence of Write calls, every artifact has
\* accumulated at most the ceiling of block bytes, unless it holds exactly one
\* accepted block that is itself longer than the ceiling; the writer's own
\* count of accumulated bytes obeys the same limit.
C2_CeilingRespected ==
  (config.Split /\ pc = "use")
    => /\ \A path \in DOMAIN out :
            \/ Len(accumulated(path)) <= ceilingBytes(w.config)
            \/ \E i \in DOMAIN hist.accepted : hist.accepted[i] = accumulated(path)
       /\ \/ w.outputSize <= ceilingBytes(w.config)
          \/ \E i \in DOMAIN hist.accepted : Len(hist.accepted[i]) = w.outputSize

\* C2 witness: a Write rotated to a second artifact, and some artifact holds a
\* block longer than the ceiling.
C2_Witness ==
  /\ config.Split /\ pc = "use" /\ w.fileIndex >= 2 /\ hist.lastOp = "Write"
  /\ \E path \in DOMAIN out : Len(accumulated(path)) > ceilingBytes(w.config)

\* a path whose name ends in .svg, in any case
isSvg(path) == HasSuffix(ToLower(path), dotSvg)

labelSvg == <<"S", "V", "G", " ", "I", "m", "a", "g", "e">>

\* C3 (as the code has it): a file whose name ends in .svg is classified as
\* text by IsTextFile, but its result is the placeholder of the extension
\* table: FileType "SVG Image" and the block "# <path>", a blank line, "This
\* is a file of type: SVG Image", a blank line.
C3_SvgIsPlaceholder ==
  \A i \in DOMAIN resultChan.buf :
    (isSvg(resultChan.buf[i].RelativePath) /\ resultChan.buf[i].Error = "nil")
      => /\ IsTextFile(tree, p.config.InputDir,
                       Join(p.config.InputDir, resultChan.buf[i].RelativePath)).isText
         /\ resultChan.buf[i].FileType = labelSvg
         /\ resultChan.buf[i].Content =
              <<"#", " ">> \o resultChan.buf[i].RelativePath \o <<"\n", "\n">>
                \o <<"T", "h", "i", "s", " ", "i", "s", " ", "a", " ", "f", "i", "l", "e", " ",
                     "o", "f", " ", "t", "y", "p", "e", ":", " ">>
                \o labelSvg \o <<"\n", "\n">>

\* C3 witness: the result of logo.svg is in the result channel.
C3_Witness ==
  \E i \in DOMAIN resultChan.buf :
    isSvg(resultChan.buf[i].RelativePath) /\ resultChan.buf[i].Error = "nil"

\* C3 as stated: the result of a .svg file has FileType "text" and the text
\* block (heading, fenced content) of its content.
C3_SvgIsText ==
  \A i \in DOMAIN resultChan.buf :
    (isSvg(resultChan.buf[i].RelativePath) /\ resultChan.buf[i].Error = "nil")
      => /\ resultChan.buf[i].FileType = typeText
         /\ resultChan.buf[i].Content =
              processTextFile(p.config, tree,
                              Join(p.config.InputDir, resultChan.buf[i].RelativePath)).content

\* C4: Process calls Close exactly once, when it returns (normally, on a
\* traversal error, on a write error), and no Write follows a Close.
C4_CloseOnceAtReturn ==
  /\ pc = "done" => hist.closes = 1 /\ hist.lastOp = "Close"
  /\ pc # "done" => hist.closes = 0
  /\ ~hist.writeAfterClose

\* C4 witness: Process returned the error of a Write and the writer was closed.
C4_Witness == pc = "done" /\ ret = "write" /\ hist.closes = 1 /\ hist.writes >= 1

\* C5: a Close that follows a Close without error returns no error.
C5_SecondCloseSucceeds ==
  (hist.lastOp = "Close" /\ Len(hist.closeErrs) >= 2 /\ hist.closeErrs[1] = "nil")
    => hist.lastErr = "nil"

\* C6: every result sent is that of a dispatched path and no path is sent
\* twice; what was sent is what was received followed by what the channel
\* still holds; the channel is closed only when one result per path was sent;
\* nothing is sent after the close.
C6_OneResultPerPath ==
  /\ NoDuplicates(hist.sent)
  /\ Range(hist.sent) \subseteq Range(files)
  /\ hist.sent = hist.received \o pathsOf(resultChan.buf)
  /\ resultChan.closed => Range(hist.sent) = Range(files) /\ Len(hist.sent) = Len(files)
  /\ ~hist.sendAfterClose

\* C6 witness: two paths were dispatched, the channel is closed and both
\* results were received.
C6_Witness == resultChan.closed /\ Len(files) = 2 /\ Len(hist.received) = 2

\* C7: a path whose processing failed is logged, not listed in IncludedFiles
\* and its block is not written, and it does not stop the run: when Process
\* returns nil every other path is listed and its block was written, and
\* TotalFiles counts the failed paths as well.
C7_FailureIsLocal ==
  /\ Range(errorLog) \cap Range(stats.IncludedFiles) = {}
  /\ stats.IncludedCount = Len(stats.IncludedFiles)
  /\ (pc = "done" /\ ret = "nil")
       => /\ stats.TotalFiles = Len(files)
          /\ Len(hist.accepted) = stats.IncludedCount
          /\ Len(errorLog) + stats.IncludedCount = Len(files)
          /\ \A i \in DOMAIN files :
               IF processFile(p.config, tree, files[i]).Error # "nil"
               THEN files[i] \in Range(errorLog)
               ELSE /\ files[i] \in Range(stats.IncludedFiles)
                    /\ processFile(p.config, tree, files[i]).Content \in Range(hist.accepted)

\* C7 witness: Process returned nil after one path failed and another was
\* written.
C7_Witness ==
  pc = "done" /\ ret = "nil" /\ errorLog # <<>> /\ stats.IncludedCount >= 1

\* C8: when a write or flush to the output destination failed during the
\* run, Process returns a non-nil error.
C8_WriteErrorReturned == (pc = "done" /\ hist.lastErr = "io") => ret # "nil"

\* C9: when Walk reports an error for an entry, collectFiles returns no
\* paths and Process returns the error: no worker is started, no result is
\* sent, no block is written; a tree with such an entry never gets past
\* collectFiles.
C9_TraversalErrorAborts ==
  /\ ret = "collect"
       => /\ pc = "done" /\ files = <<>> /\ workers = <<>> /\ resultChan = [buf |-> <<>>, cap |-> 0, closed |-> FALSE]
          /\ hist.sent = <<>> /\ hist.writes = 0 /\ stats.TotalFiles = 0
  /\ (\E i \in DOMAIN tree : tree[i].walkErr)
       => pc \in {"new", "failed", "walk"} \/ ret = "collect"

\* C9 witness: Walk had visited a file before the entry that failed.
C9_Witness == ret = "collect" /\ walked >= 2 /\ ~tree[2].isDir /\ ~tree[2].walkErr

\* C10: every store to a field of the stats is made while stats.mu is held.
C10_StoresUnderLock == unguarded = {}

\* C11: at every instant at most maxConcurrency (10) workers are inside
\* per-file processing: the workers past the semaphore send and before its
\* release are as many as the slots in use, and never more than 10.
C11_AtMostTenInFlight ==
  /\ Cardinality({i \in DOMAIN workers : workers[i] = "run"}) = semaphore
  /\ semaphore <= maxConcurrency

\* C11 witness: all 10 slots are in use and an eleventh worker waits for one.
C11_Witness ==
  /\ semaphore = maxConcurrency
  /\ \E i \in DOMAIN workers : workers[i] = "wait"

\* a block under the heading of relative path rel
blockFor(block, rel) == HasPrefix(block, headingMark \o rel \o blankLine)

\* for each entry Walk has visited so far: "dir", or what the matcher says of
\* the regular file, "ignored" or "kept"
visited ==
  [i \in 1..walked |->
     IF tree[i].isDir THEN "dir"
     ELSE IF ShouldIgnore(p.matcher, relOf(tree[i]).path) THEN "ignored" ELSE "kept"]

\* the relative paths of the entries of kind k among the visited, in the
\* order of the visit
pathsVisited(v, k) ==
  LET at == SelectSeq([i \in DOMAIN v |-> i], LAMBDA i : v[i] = k)
  IN  [j \in DOMAIN at |-> relOf(tree[at[j]]).path]

\* what C12 states of the visit v
ignoredAreOut(v) ==
  /\ stats.IgnoredCount = Len(pathsVisited(v, "ignored"))
  /\ \A rel \in Range(pathsVisited(v, "ignored")) :
       /\ rel \notin Range(files) \cup Range(hist.sent) \cup Range(stats.IncludedFiles)
       /\ \A k \in DOMAIN hist.accepted : ~blockFor(hist.accepted[k], rel)
  /\ ret # "collect" => files = pathsVisited(v, "kept") /\ NoDuplicates(files)

nodeModulesIndexJs ==
  <<"n", "o", "d", "e", "_", "m", "o", "d", "u", "l", "e", "s", "/", "p", "k", "g", "/",
    "i", "n", "d", "e", "x", ".", "j", "s">>

\* C12: IgnoredCount is the number of visited regular files the matcher
\* ignores (one increment each); such a file is never in the listing that is
\* dispatched, never sent by a worker, never in IncludedFiles and no block
\* with its heading is written; the listing is exactly the visited files
\* that are not ignored, each once.  With default ignores enabled, a visited
\* node_modules/pkg/index.js makes IgnoredCount >= 1 and is never included.
C12_IgnoredCountedAndExcluded ==
  /\ ignoredAreOut(visited)
  /\ \A i \in 1..walked :
       (config.UseDefaultIgnores /\ tree[i].name = nodeModulesIndexJs)
         => /\ stats.IgnoredCount >= 1
            /\ nodeModulesIndexJs \notin Range(stats.IncludedFiles)

\* C12 witness: a run with default ignores over node_modules/pkg/index.js and
\* one other file ended: one file was counted as ignored, the other written.
C12_Witness ==
  /\ pc = "done" /\ ret = "nil" /\ config.UseDefaultIgnores
  /\ \E i \in DOMAIN tree : tree[i].name = nodeModulesIndexJs
  /\ stats.IgnoredCount = 1 /\ stats.IncludedCount = 1 /\ Len(hist.accepted) = 1

\* C13: ShouldIgnore(path) is true exactly when the default rules are active
\* and match the slash-normalized path or the custom rules are active and
\* match it; with neither rule set active it is false for every path.
C13_IgnoredIffAnActiveSetMatches ==
  (call.fn = "ShouldIgnore" /\ call.applied = 1)
    => /\ call.value
            = (\/ call.useDefault /\ MatchesPath(DefaultIgnores, ToSlash(call.arg))
               \/ call.patterns # <<>> /\ MatchesPath(call.patterns, ToSlash(call.arg)))
       /\ (~call.useDefault /\ call.patterns = <<>>) => ~call.value

\* C13 witness: a path only the custom rules match is ignored while the
\* default rules are active too.
C13_Witness ==
  /\ call.fn = "ShouldIgnore" /\ call.applied = 1 /\ call.value
  /\ call.useDefault /\ call.patterns # <<>>
  /\ ~MatchesPath(DefaultIgnores, ToSlash(call.arg))

\* C14: RemoveWhitespace is idempotent: applied to its own value it returns
\* that value.
C14_RemoveWhitespaceIdempotent ==
  (call.fn = "RemoveWhitespace" /\ call.applied = 2) => call.value = call.before

\* C14 witness: a string with a run of whitespace inside and whitespace at an
\* end was normalized to something else, and normalized again.
C14_Witness ==
  /\ call.fn = "RemoveWhitespace" /\ call.applied = 2
  /\ call.before # call.arg
  /\ \E i \in 1..(Len(call.arg) - 1) : isWhitespace(call.arg[i]) /\ isWhitespace(call.arg[i + 1])
  /\ call.arg # <<>> /\ isWhitespace(call.arg[Len(call.arg)])
  /\ call.value # <<>>

\* the block of a text file that is not markdown: heading, fence with the
\* extension, content, closing fence
fencedBlock(rel, content) ==
  headingMark \o rel \o blankLine \o fence3 \o TrimPrefix(Ext(rel), <<".">>) \o <<"\n">>
    \o content \o <<"\n", "60", "60", "60", "\n", "\n">>

\* the blocks produced so far: those in the channel and those written
blocksProduced ==
  {resultChan.buf[k].Content : k \in {i \in DOMAIN resultChan.buf : resultChan.buf[i].Error = "nil"}}
    \cup Range(hist.accepted)

\* C15: the block of a text file with a whitespace-sensitive extension holds
\* the file's content as it is, with whitespace removal enabled or disabled;
\* with removal enabled the block of a non-sensitive file holds the content
\* with its whitespace runs collapsed.  a.py with "x  y" gives "x  y"; b.txt
\* with "x    y" gives "x y" under removal.
C15_SensitiveContentKept ==
  \A b \in blocksProduced :
    /\ \A i \in DOMAIN tree :
         (/\ blockFor(b, tree[i].name) /\ ~tree[i].isDir
          /\ Ext(tree[i].name) \in WhitespaceDependentExtensions)
           => b = fencedBlock(tree[i].name, tree[i].content)
    /\ blockFor(b, <<"a", ".", "p", "y">>)
         => b = fencedBlock(<<"a", ".", "p", "y">>, <<"x", " ", " ", "y">>)
    /\ (blockFor(b, <<"b", ".", "t", "x", "t">>) /\ config.RemoveWhitespace)
         => b = fencedBlock(<<"b", ".", "t", "x", "t">>, <<"x", " ", "y">>)

\* C15 witness: with whitespace removal enabled, the blocks of a.py and of
\* b.txt were both written.
C15_Witness ==
  /\ config.RemoveWhitespace /\ pc = "done" /\ ret = "nil"
  /\ \E j, k \in DOMAIN hist.accepted :
       /\ blockFor(hist.accepted[j], <<"a", ".", "p", "y">>)
       /\ blockFor(hist.accepted[k], <<"b", ".", "t", "x", "t">>)

\* the blocks accepted so far are those of the three files, of five, six and
\* two tenths of the ceiling
threeShares ==
  /\ Len(hist.accepted) = 3
  /\ {Len(hist.accepted[k]) : k \in 1..3}
       = {(ceilingBytes(w.config) * t) \div 10 : t \in {5, 6, 2}}

\* C16: in a split run over three text blocks of 0.5, 0.6 and 0.2 of the
\* ceiling, in whatever order the results arrive, no artifact ever holds
\* more block bytes than the ceiling, and when the run has ended at least
\* two artifacts hold the three blocks.
C16_ThreeBlocksTwoArtifacts ==
  /\ pc \notin {"new", "failed"}
       => \A path \in DOMAIN out : Len(accumulated(path)) <= ceilingBytes(w.config)
  /\ pc = "done"
       => /\ ret = "nil" /\ threeShares
          /\ Cardinality(DOMAIN out) >= 2
          /\ stats.NumberOfFiles = Cardinality(DOMAIN out)

\* C16 witness: the run ended after the smallest block arrived first and the
\* largest last.
C16_Witness ==
  /\ pc = "done" /\ threeShares
  /\ Len(hist.accepted[1]) < Len(hist.accepted[2])
  /\ Len(hist.accepted[2]) < Len(hist.accepted[3])

\* a run over a directory without a regular file has ended without error
emptyRunEnded ==
  /\ pc = "done" /\ ret = "nil"
  /\ \A i \in DOMAIN tree : tree[i].isDir

\* C17: a run over a directory without files ends with TotalFiles = 0 and
\* IncludedCount = 0.  In single mode the one artifact exists and is empty.
\* In split mode the artifact that newMultiFileWriter opened exists and
\* holds the marker and no block, and NumberOfFiles is 1.
C17_EmptyRunOneArtifact ==
  emptyRunEnded
    => /\ stats.TotalFiles = 0 /\ stats.IncludedCount = 0
       /\ hist.accepted = <<>>
       /\ ~config.Split => DOMAIN out = {config.OutputFile} /\ out[config.OutputFile] = <<>>
       /\ config.Split
            => /\ DOMAIN out = {getCurrentPathForIndex(w.config, 1)}
               /\ out[getCurrentPathForIndex(w.config, 1)] = utf8BOM
               /\ stats.NumberOfFiles = 1

\* C17 witness: a split run over the directory that holds nothing has ended.
C17_Witness == emptyRunEnded /\ config.Split /\ tree = <<rootEntry>>

\* C17 as stated: after a split run over a directory without files no
\* artifact exists and NumberOfFiles is 0.
C17_EmptySplitRunNoArtifact ==
  (emptyRunEnded /\ config.Split) => DOMAIN out = {} /\ stats.NumberOfFiles = 0

\* C18: every artifact of a split writer starts with the marker EF BB BF,
\* which is written once, before any block; an artifact of the single
\* writer holds no marker unless a block brought it.
C18_MarkerOpensEveryArtifact ==
  \A path \in DOMAIN out :
    IF config.Split
    THEN /\ HasPrefix(out[path], utf8BOM)
         /\ ~HasPrefix(accumulated(path), utf8BOM)
    ELSE ~HasPrefix(out[path], utf8BOM)

\* the paths of the results received without error, in the order of receipt
receivedOk == SelectSeq(hist.received, LAMBDA x : x \notin Range(errorLog))

\* the bytes of a sequence of blocks, one after the other
RECURSIVE flatten(_)
flatten(blocks) == IF blocks = <<>> THEN <<>> ELSE Head(blocks) \o flatten(Tail(blocks))

\* C19: IncludedFiles is the sequence of the paths of the results received
\* without error, in the order of receipt (short of the one result whose
\* Write failed, when Process returned that error), and the blocks were
\* written in that same order, whatever the interleaving of the workers.
C19_IncludedInArrivalOrder ==
  /\ stats.IncludedFiles
       = IF ret = "write" THEN SubSeq(receivedOk, 1, Len(receivedOk) - 1) ELSE receivedOk
  /\ Len(hist.accepted) = Len(stats.IncludedFiles)
  /\ \A i \in DOMAIN stats.IncludedFiles : blockFor(hist.accepted[i], stats.IncludedFiles[i])
  /\ (pc = "done" /\ ~config.Split /\ hist.lastErr = "nil")
       => out[config.OutputFile] = flatten(hist.accepted)

\* C19 witness: two files were included in the reverse of the order in which
\* Walk listed them.
C19_Witness ==
  /\ pc = "done" /\ ret = "nil" /\ Len(files) = 2
  /\ stats.IncludedFiles = <<files[2], files[1]>>

\* C20: no relative path belongs to more than one FileRecord of a run: the
\* listing, the results sent, those in the channel and those received hold
\* each path at most once; IncludedFiles holds no path twice and no file has
\* more than one block written.
C20_PathsUnique ==
  /\ NoDuplicates(files)
  /\ NoDuplicates(hist.sent)
  /\ NoDuplicates(pathsOf(resultChan.buf))
  /\ NoDuplicates(hist.received)
  /\ NoDuplicates(stats.IncludedFiles)
  /\ \A i \in DOMAIN tree :
       Cardinality({k \in DOMAIN hist.accepted : blockFor(hist.accepted[k], tree[i].name)}) <= 1

\* C20 witness: a run over two files ended with both received and both
\* blocks written.
C20_Witness ==
  /\ pc = "done" /\ ret = "nil"
  /\ Len(hist.received) = 2 /\ Len(hist.accepted) = 2 /\ Len(stats.IncludedFiles) = 2

(***************************************************************************)
(* The digest command.                                                     *)
(***************************************************************************)
\* the traversal of the command's input directory is complete
collected == pc \in {"dispatch", "consume", "done"} /\ walked = Len(tree)

\* C21: once the input directory is traversed, a command line that gives
\* --no-default-ignores has run without the default rule set (the matcher has
\* none, and node_modules/pkg/index.js, which only a default pattern matches,
\* is listed and not counted as ignored); a command line that does not give
\* the flag has run with it (index.js is not listed).
C21_FlagSwitchesDefaultRulesOff ==
  collected =>
    /\ argv.noDefaultIgnores = <<"">> =>
         /\ ~p.matcher.defaultIgnore.set
         /\ nodeModulesIndexJs \in Range(files)
    /\ argv.noDefaultIgnores = <<>> =>
         /\ p.matcher.defaultIgnore.set
         /\ nodeModulesIndexJs \notin Range(files)

\* C21: what the bare flag does: the same as no flag at all
C21_BareFlagKeepsDefaultRules ==
  collected /\ argv.noDefaultIgnores \in {<<>>, <<"">>} =>
    /\ p.matcher.defaultIgnore.set
    /\ nodeModulesIndexJs \notin Range(files)
    /\ stats.IgnoredCount >= 1

\* C21: only --no-default-ignores=false runs without the default rule set
C21_FalseValueSwitchesOff ==
  collected /\ argv.noDefaultIgnores = <<"false">> =>
    ~p.matcher.defaultIgnore.set /\ nodeModulesIndexJs \in Range(files)

\* the pattern the ignore file of the command's input directory lists
starDotPy == <<"*", ".", "p", "y">>

\* C22: the ignore file of the run (.aidigestignore, or the name given with
\* --ignore-file) lists *.py: once the input directory is traversed, a.py,
\* which the pattern matches, is not in the listing, is counted as ignored,
\* and is never included in the output.
C22_IgnoreFilePatternExcludes ==
  collected /\ GlobMatch(starDotPy, Universe[1].name) =>
    /\ Universe[1].name \notin Range(files)
    /\ Universe[1].name \notin Range(stats.IncludedFiles)
    /\ stats.IgnoredCount >= 1 + (IF p.matcher.defaultIgnore.set THEN 1 ELSE 0)

\* C22: what the run does with the ignore file: the matcher has no custom
\* rule set, and both a.py and the ignore file itself are listed as input
C22_IgnoreFileIsNeverRead ==
  collected =>
    /\ ~p.matcher.customIgnore.set
    /\ p.config.IgnoreFile = tree[2].name
    /\ Universe[1].name \in Range(files)
    /\ tree[2].name \in Range(files)

\* the command ended with an error before NewProcessor was called: nothing
\* was created, collected or processed
rejectedByFlags ==
  /\ pc = "failed" /\ ret \in {"max-size", "chunk-size"}
  /\ w = NoWriter /\ out = <<>>
  /\ walked = 0 /\ files = <<>> /\ workers = <<>>
  /\ stats = ZeroStats /\ hist = hist0

allAttempted == \A i \in DOMAIN workers : workers[i] = "done"

\* C24: under a fair scheduler every run ends: NewProcessor or Process
\* returns.  Once the paths are dispatched, every one of them is eventually
\* attempted and the result channel is eventually closed.  A Process that
\* returned nil has drained the closed channel, and a Process that returned
\* has closed the writer.  A Process that returned the error of the traversal
\* started no goroutine, received no result and wrote nothing.
C24_RunTerminates ==
  /\ <>(ret # "none")
  /\ [](pc = "consume" => <>(allAttempted /\ resultChan.closed /\ closer = "done"))
  /\ [](pc = "done" /\ ret = "nil" =>
          allAttempted /\ resultChan.closed /\ resultChan.buf = <<>>
          /\ Len(hist.received) = Len(files))
  /\ [](pc = "done" => hist.closes = 1)
  /\ [](ret = "collect" =>
          pc = "done" /\ workers = <<>> /\ hist.sent = <<>> /\ hist.received = <<>>
          /\ hist.writes = 0 /\ closer = "none")

\* C24 witness: a run over two listed files ended with nil, the channel closed
\* and drained, the writer closed
C24_Witness ==
  /\ pc = "done" /\ ret = "nil" /\ Len(files) = 2 /\ allAttempted
  /\ resultChan.closed /\ resultChan.buf = <<>> /\ hist.closes = 1

(***************************************************************************)
(* Rotation of the split writer                                            *)
(***************************************************************************)
\* the step is a call of Write on the split writer, before any Close, with a
\* block that is valid UTF-8
splitWriteStep ==
  /\ w.kind = "multi" /\ hist.closes = 0
  /\ hist'.writes = hist.writes + 1
  /\ utf8Valid(hist'.lastArg)

\* the step made a new artifact the current one (createNewFile reached its end)
opened == stats'.NumberOfFiles = stats.NumberOfFiles + 1

\* what a rotation does: the bytes buffered for the artifact left behind are in
\* it and it is closed, the artifact of the next index is the only file held,
\* and the count restarted at 0 before the block was counted
rotated ==
  /\ w'.fileIndex = w.fileIndex + 1
  /\ w'.currentFile = [path |-> getCurrentPathForIndex(w.config, w.fileIndex + 1), state |-> "open"]
  /\ handles'.open = {w'.currentFile.path}
  /\ w.currentFile.state = "open" =>
       /\ w.currentFile.path \notin handles'.open
       /\ out'[w.currentFile.path] = out[w.currentFile.path] \o w.writer.buf
  /\ w'.outputSize = IF hist'.lastErr = "nil" THEN Len(hist'.lastArg) ELSE 0

\* C25: a Write of the split writer makes a new artifact the current one only
\* when none is open or the count plus the block's length exceeds the ceiling,
\* and then always unless it returns an error; a rotation flushes and closes
\* the artifact left behind before it opens the next one, adds exactly 1 to
\* the index and restarts the count at 0; without a rotation the index stays
\* and the count grows by the block's length; the first artifact has index 1,
\* the index never decreases, and at most one artifact is ever held open
C25_RotationExactlyWhenNeeded ==
  [][/\ splitWriteStep =>
          /\ opened => mustRotate(w, Len(hist'.lastArg)) /\ rotated
          /\ mustRotate(w, Len(hist'.lastArg)) /\ hist'.lastErr = "nil" => opened
          /\ ~opened /\ hist'.lastErr = "nil" =>
               w'.fileIndex = w.fileIndex /\ w'.outputSize = w.outputSize + Len(hist'.lastArg)
     /\ w'.kind = "multi" =>
          /\ w'.fileIndex >= w.fileIndex /\ w'.fileIndex <= w.fileIndex + 1
          /\ w.kind # "multi" => w'.fileIndex = 1
          /\ handles'.peak <= 1 /\ Cardinality(handles'.open) <= 1]_vars

\* C25 witness: a second artifact was opened by a Write that found the first
\* one too full for its block, and holds that block alone
C25_Witness ==
  /\ w.kind = "multi" /\ w.fileIndex = 2 /\ hist.closes = 0 /\ hist.lastErr = "nil"
  /\ hist.writes >= 2 /\ w.outputSize = Len(hist.lastArg)
  /\ handles.open = {w.currentFile.path} /\ handles.peak = 1

(***************************************************************************)
(* Blocks that are not valid UTF-8                                         *)
(***************************************************************************)
\* the step is a call of Write on the split writer with a block that is not
\* valid UTF-8
invalidWriteStep ==
  /\ w.kind = "multi"
  /\ hist'.writes = hist.writes + 1
  /\ ~utf8Valid(hist'.lastArg)

\* C26: a Write of the split writer whose block is not valid UTF-8 returns an
\* error and changes nothing: the writer (current file, buffer, index, count),
\* the artifacts on disk, the files held open and the statistics are as before
C26_InvalidBlockChangesNothing ==
  [][invalidWriteStep =>
       /\ hist'.lastErr = "utf8"
       /\ hist'.accepted = hist.accepted
       /\ UNCHANGED <<w, out, handles, stats, unguarded>>]_vars

\* C26 witness: the split writer, after it took a block into its current
\* artifact, has refused a block that is not valid UTF-8
C26_Witness ==
  /\ w.kind = "multi" /\ hist.lastOp = "Write" /\ hist.lastErr = "utf8"
  /\ ~utf8Valid(hist.lastArg)
  /\ Len(hist.accepted) >= 1 /\ w.outputSize > 0 /\ w.fileIndex >= 1

(***************************************************************************)
(* The final statistics of the split writer                                *)
(***************************************************************************)
\* the sizes of the artifacts on disk
sizesOnDisk == {Len(out[path]) : path \in DOMAIN out}

RECURSIVE sumOfSizes(_)
sumOfSizes(paths) ==
  IF paths = {} THEN 0
  ELSE LET path == CHOOSE q \in paths : TRUE
       IN  Len(out[path]) + sumOfSizes(paths \ {path})

\* the statistics are those of the artifacts on disk
statsOfDisk ==
  /\ stats.NumberOfFiles = Cardinality(DOMAIN out)
  /\ stats.NumberOfFiles >= 1
  /\ stats.SmallestFileSize \in sizesOnDisk /\ \A s \in sizesOnDisk : stats.SmallestFileSize <= s
  /\ stats.LargestFileSize \in sizesOnDisk /\ \A s \in sizesOnDisk : s <= stats.LargestFileSize
  /\ Len(out[stats.SmallestFile]) = stats.SmallestFileSize
  /\ Len(out[stats.LargestFile]) = stats.LargestFileSize
  /\ stats.AverageFileSize = sumOfSizes(DOMAIN out) \div Cardinality(DOMAIN out)
  /\ stats.SmallestFileSize <= stats.AverageFileSize
  /\ stats.AverageFileSize <= stats.LargestFileSize

\* the split writer was closed once, without error
closedWithoutError ==
  /\ w.kind = "multi" /\ hist.lastOp = "Close" /\ hist.lastErr = "nil" /\ hist.closes = 1

abortedOnWrite == pc = "done" /\ ret = "write"

\* C28: the send of a worker never blocks: whenever a worker holds its result
\* the channel has room for it, as its capacity is the number of dispatched
\* paths.  So also after Process returned the error of a Write and receives
\* no more, under a fair scheduler every worker ends, every slot of the
\* semaphore is released and the channel is closed
C28_WorkersNeverStuck ==
  /\ [](\A i \in DOMAIN workers :
          workers[i] = "run" => Len(resultChan.buf) < resultChan.cap)
  /\ [](resultChan.cap = Len(workers))
  /\ [](abortedOnWrite => <>(/\ allAttempted /\ semaphore = 0 /\ wg = 0
                             /\ resultChan.closed /\ closer = "done"))

\* C28 witness: Process returned the error of its first Write over two listed
\* files; both workers ended, the slots are free, the channel is closed and
\* still holds the result that was never received
C28_Witness ==
  /\ abortedOnWrite /\ Len(files) = 2 /\ allAttempted /\ semaphore = 0
  /\ resultChan.closed /\ closer = "done"
  /\ Len(resultChan.buf) = 1 /\ Len(hist.received) = 1

(***************************************************************************)
(* The names of the artifacts                                              *)
(***************************************************************************)
\* the indices the split writer has used so far
indicesUsed == IF w.kind = "multi" THEN 1..w.fileIndex ELSE {}

\* no two indices used so far name the same path
namesDistinct ==
  \A i, j \in indicesUsed :
    i # j => getCurrentPathForIndex(w.config, i) # getCurrentPathForIndex(w.config, j)

\* C29: in split mode, under every configuration the command accepts, distinct
\* artifact indices name distinct paths, and so every artifact that was opened
\* is still on disk under its own name with the blocks written to it
C29_DistinctIndicesDistinctPaths ==
  /\ namesDistinct
  /\ w.kind = "multi" /\ stats.NumberOfFiles = w.fileIndex => Cardinality(DOMAIN out) = w.fileIndex

\* C29, the part that holds: with the default naming and with a pattern whose
\* verb is %d, distinct indices name distinct paths
C29_DecimalNamesDistinct ==
  w.kind = "multi" /\ w.config.OutputFilePattern \in {<<>>, patternD} => namesDistinct

(***************************************************************************)
(* Artifacts without a block                                               *)
(***************************************************************************)

\* the bytes of the artifact at path, those still buffered for it included
bytesOf(path) ==
  IF w.writer.set /\ w.currentFile.path = path THEN out[path] \o w.writer.buf ELSE out[path]

\* the artifacts without a block: the marker alone
markerOnly == {path \in DOMAIN out : bytesOf(path) = utf8BOM}

\* a block has been written by the split writer on a destination that took
\* every byte
blockWritten == w.kind = "multi" /\ disk = "ok" /\ Len(hist.accepted) >= 1

RECURSIVE blocksAt(_, _)
blocksAt(i, k) ==
  IF k > Len(hist.accepted) THEN <<>>
  ELSE IF hist.acceptedAt[k] = i THEN <<hist.accepted[k]>> \o blocksAt(i, k + 1)
  ELSE blocksAt(i, k + 1)

\* the bytes of artifact i after its marker
blockBytes(i) ==
  SubSeq(out[getCurrentPathForIndex(w.config, i)], Len(utf8BOM) + 1,
         Len(out[getCurrentPathForIndex(w.config, i)]))

\* the block bytes of the artifacts i..w.fileIndex, in index order
RECURSIVE blockBytesFrom(_)
blockBytesFrom(i) ==
  IF i > w.fileIndex THEN <<>> ELSE blockBytes(i) \o blockBytesFrom(i + 1)

\* every artifact is the marker followed by the blocks accepted while it was
\* the current one, whole and in the order of their Writes (so its size is 3
\* plus the sum of their lengths); the artifacts are those of the indices 1 to
\* fileIndex, and their block bytes in index order are the accepted blocks in
\* the order written
blocksStored ==
  /\ DOMAIN out = {getCurrentPathForIndex(w.config, i) : i \in 1..w.fileIndex}
  /\ \A k \in 1..Len(hist.accepted) : hist.acceptedAt[k] \in 1..w.fileIndex
  /\ \A i \in 1..w.fileIndex :
       /\ out[getCurrentPathForIndex(w.config, i)] = utf8BOM \o flatten(blocksAt(i, 1))
       /\ Len(out[getCurrentPathForIndex(w.config, i)]) = 3 + Len(flatten(blocksAt(i, 1)))
  /\ blockBytesFrom(1) = flatten(hist.accepted)

====
